---- MODULE Spec2Model ----
(***************************************************************************)
(* Lesson orchestration engine of the tutoring application                  *)
(* (src/lesson_engine.py): the LessonEngine session state machine, its     *)
(* dynamic difficulty adjustment and the calls it makes to the persistent  *)
(* store (src/database.py).                                                *)
(*                                                                         *)
(* The engine is single threaded: every public operation is one atomic     *)
(* action.  The private methods are operators from an engine value to an   *)
(* engine value, composed exactly as the methods call each other.          *)
(***************************************************************************)
EXTENDS Integers, Sequences, FiniteSets, TLC

\* ------------------------------------------------------------------------
\* Bounds of the exploration (not program constants)
\* ------------------------------------------------------------------------
MaxAnswers == 6
MaxHints == 1
MaxSessions == 1
MaxWriteFailures == 1
MaxAttempts == 8
MaxDays == 2
MaxPractice == 12
MaxPracticeDays == 3
MaxSelect == 3
MaxQualityHints == 3
MaxQualityAnswers == 2
MaxWrong == 4
MaxWrongDays == 3
MaxGroups == 4
MaxQuestions == 2
MaxLessonsStarted == 2

\* ------------------------------------------------------------------------
\* Program constants
\* ------------------------------------------------------------------------
PRETEST_COUNT == 3
PRACTICE_COUNT == 8
POSTTEST_COUNT == 5
PRETEST_PASS_SCORE == 70
POSTTEST_PASS_SCORE == 75
SRS_DUE_LIMIT == 3
DEFAULT_TIER == 2
TIER_CAP == 3
TIER_FLOOR == 1
TIER_UP_AT == 3
TIER_DOWN_AT == 2
ALT_EXPLAIN_AT == 3
DEFAULT_AVG_TIME == 30
\* Mastery is kept in ten-thousandths of 1 and weights in hundredths
MASTERY_ONE == 10000
MASTERY_FIRST_CORRECT == 6000
MASTERY_FIRST_WRONG == 2000
MASTERY_STEP_UP == 1500
MASTERY_STEP_DOWN == 1000
WEIGHT_ONE == 100
SELECT_POOL == 50

\* LessonState
LessonState ==
  {"IDLE", "WARMUP", "PRE_TEST", "LESSON_INTRO", "LESSON_CHUNK", "MICRO_QUIZ",
   "PRACTICE", "POST_TEST", "SUMMARY", "DONE", "PAUSED"}

\* self.session = None
None == [none |-> TRUE]

\* ------------------------------------------------------------------------
\* Content store: lessons, exercises, micro quizzes (read-only data)
\* ------------------------------------------------------------------------
\* Lessons of the store.  Lesson 0 does not exist (get_lesson returns None).
\*   chunks: number of theory chunks _split_theory yields
\*   mq:     chunk indices that have a micro quiz row
\*   pre/practice/post: exercise ids of each phase, in store order
LessonTable ==
  [i \in 1..7 |->
     CASE i = 1 -> [id |-> 1, subject |-> "MATEMATICA", grade |-> 4,
                    chunks |-> 2, mq |-> {0},
                    pre |-> <<1, 2, 3>>, practice |-> <<4, 5, 6>>, post |-> <<7, 8>>]
       [] i = 2 -> [id |-> 2, subject |-> "LIMBA ROMANA", grade |-> 3,
                    chunks |-> 1, mq |-> {0},
                    pre |-> <<1, 2, 3>>, practice |-> <<4, 5, 6>>, post |-> <<>>]
       [] i = 3 -> [id |-> 3, subject |-> "ENGLEZA", grade |-> 2,
                    chunks |-> 0, mq |-> {},
                    pre |-> <<>>, practice |-> <<5, 4>>, post |-> <<7>>]
       [] i = 4 -> [id |-> 4, subject |-> "COMUNICARE", grade |-> 1,
                    chunks |-> 2, mq |-> {1},
                    pre |-> <<>>, practice |-> <<4, 5, 6>>, post |-> <<8>>]
       [] i = 5 -> [id |-> 5, subject |-> "MATEMATICA", grade |-> 4,
                    chunks |-> 1, mq |-> {},
                    pre |-> <<>>, practice |-> <<10, 11, 12, 13>>, post |-> <<>>]
       [] i = 6 -> [id |-> 6, subject |-> "MATEMATICA", grade |-> 4,
                    chunks |-> 1, mq |-> {},
                    pre |-> <<>>, practice |-> <<14, 15>>, post |-> <<>>]
       [] i = 7 -> [id |-> 7, subject |-> "MATEMATICA", grade |-> 1,
                    chunks |-> 1, mq |-> {},
                    pre |-> <<16>>, practice |-> <<17, 18, 19>>, post |-> <<>>]]

LessonIds == 0..4

\* Database.get_lesson
get_lesson(lesson_id) ==
  IF lesson_id \in DOMAIN LessonTable THEN LessonTable[lesson_id] ELSE None

\* Exercise rows: difficulty rating (dificultate), coarse difficulty tier,
\* skill codes, number of hints (hint1..hint<hints> are filled in, at most
\* three columns exist).  Exercises 10..15 are the practice pools of lessons
\* 5 and 6; 13 and 14 are tier-4 exercises.  enunt is the kind of text of the
\* exercise: "real" (30 characters or more, none of the placeholder
\* patterns), "seeded" (the placeholder text the store seeds, written with
\* diacritics) or "short" (fewer than 20 characters).  Exercises 16..19 are
\* the placeholders of lesson 7; 20..25 are the rows that a run of
\* _generate_exercises_background inserts.
ExerciseTable ==
  [i \in 1..25 |->
     [id |-> i,
      enunt |-> CASE i = 16 -> "seeded"
                  [] i \in {17, 18, 19} -> "short"
                  [] OTHER -> "real",
      dificultate |-> CASE i = 11 -> 2
                        [] i = 12 -> 3
                        [] i = 13 -> 4
                        [] i \in {14, 15} -> 2
                        [] OTHER -> 1,
      difficulty_tier |-> CASE i \in {1, 4, 7, 10} \cup 16..25 -> 1
                            [] i \in {2, 6, 9, 11, 15} -> 2
                            [] i \in {13, 14} -> 4
                            [] OTHER -> 3,
      skill_codes |-> CASE i \in {2, 5, 8, 12} \cup 16..25 -> {}
                        [] i \in {11, 15} -> {"MATH_4"}
                        [] i = 13 -> {"SKILL_A", "MATH_4"}
                        [] OTHER -> {"SKILL_A"},
      hints |-> i % 4]]

\* Prefix of a list: the LIMIT/count of a store query and list[:n].
Take(seq, n) == SubSeq(seq, 1, IF Len(seq) < n THEN Len(seq) ELSE n)

\* Database.get_exercises(lesson_id, phase, count)
get_exercises(lesson, phase, count) ==
  Take(CASE phase = "pretest" -> lesson.pre
         [] phase = "practice" -> lesson.practice
         [] phase = "posttest" -> lesson.post, count)

\* Database.get_micro_quiz_for_lesson: is there a quiz row for the chunk
get_micro_quiz_for_lesson(lesson, chunk_index) == chunk_index \in lesson.mq

\* Database.get_srs_due(user_id, limit): the learner's due exercises.  The
\* result depends on the learner's history, so start draws it from here.
SrsDueChoices == {<<>>, <<9>>}

Range(seq) == {seq[i] : i \in 1..Len(seq)}

\* ------------------------------------------------------------------------
\* Engine value
\* ------------------------------------------------------------------------
VARIABLES
  session,               \* LessonEngine.session (None or a LessonSession)
  prev_state,            \* LessonEngine._prev_state ("None" until pause)
  waiting_for_continue,  \* LessonEngine._waiting_for_continue
  micro_quiz_ex,         \* LessonEngine._micro_quiz_ex: "unset", "None" or "quiz"
  db,                    \* calls received by the persistent store
  emitted,               \* callbacks fired by the last public operation
  call,                  \* the last public operation, its input (ok: the answer
                         \* was correct / exercises were due) and outcome
  user_skill,            \* table user_skill of the learner: skill code -> row
  today,                 \* the calendar day of datetime.now()
  level_raises,          \* per skill: calls of the current day that raised its level
  exercise_stats,        \* table user_exercise_stats of the learner: exercise id -> row
  reply,                 \* the last query of the store: its arguments and result
  bg_threads,            \* the _bg threads of ask_free_question, in start order:
                         \* "running" until the thread has spoken, then "done"
  generation             \* the timer thread of _generate_exercises_background

engine_vars ==
  <<session, prev_state, waiting_for_continue, micro_quiz_ex, db, emitted, call>>
query_vars == <<exercise_stats, reply>>
worker_vars == <<bg_threads, generation>>
store_vars == <<user_skill, today, level_raises, exercise_stats, reply,
                bg_threads, generation>>
vars == <<session, prev_state, waiting_for_continue, micro_quiz_ex, db, emitted, call,
          user_skill, today, level_raises, exercise_stats, reply,
          bg_threads, generation>>

\* The engine as one value, threaded through the private methods.
Engine ==
  [session |-> session, prev_state |-> prev_state,
   waiting_for_continue |-> waiting_for_continue,
   micro_quiz_ex |-> micro_quiz_ex, db |-> db, emitted |-> <<>>, ret |-> "None"]

\* LessonSession(user_id, lesson): the dataclass defaults.
\* avg_answer_time is kept as the exact sum time_sum over answers_count.
LessonSession(lesson) ==
  [lesson |-> lesson, state |-> "IDLE",
   warmup_exercises |-> <<>>, pretest_exercises |-> <<>>,
   practice_exercises |-> <<>>, posttest_exercises |-> <<>>,
   pretest_results |-> <<>>, practice_results |-> <<>>, posttest_results |-> <<>>,
   current_exercise_idx |-> 0, current_hints_used |-> 0,
   theory_chunks |-> <<>>, current_chunk_idx |-> 0,
   session_id |-> 0,
   correct_streak |-> 0, consecutive_wrong |-> 0,
   time_sum |-> 0, answers_count |-> 0,
   current_tier |-> DEFAULT_TIER, tier_up_streak |-> 0, tier_down_count |-> 0]

\* The store before any call of the session; failed counts the writes that
\* raised.
EmptyDb == [sessions |-> 0, answers |-> <<>>, skills |-> <<>>, srs |-> <<>>,
            wrong |-> <<>>, ended |-> <<>>, progress |-> <<>>, failed |-> 0]

\* A callback fired towards the presentation layer (or a store call noted in
\* the trace).
Ev(name, st, n) == [ev |-> name, st |-> st, n |-> n]
Emit(e, name, st, n) == [e EXCEPT !.emitted = Append(@, Ev(name, st, n))]

\* LessonSession.get_score: percentage of correct results (0 when empty),
\* as the exact fraction num/den compared by cross multiplication.
Correct(results) == Cardinality({i \in 1..Len(results) : results[i].is_correct})
get_score(results) ==
  IF Len(results) = 0 THEN [num |-> 0, den |-> 1]
  ELSE [num |-> 100 * Correct(results), den |-> Len(results)]
get_pretest_score(s) ==
  IF Len(s.pretest_results) > 0 THEN get_score(s.pretest_results)
  ELSE [num |-> 100, den |-> 1]
get_practice_score(s) == get_score(s.practice_results)
\* Variant of get_posttest_score: no fallback to the practice results.
get_posttest_score_no_fallback(s) == get_score(s.posttest_results)

get_posttest_score(s) ==
  IF Len(s.posttest_results) > 0 THEN get_score(s.posttest_results)
  ELSE IF Len(s.practice_results) > 0 THEN get_score(s.practice_results)
  ELSE [num |-> 0, den |-> 1]
\* score >= threshold
ScoreAtLeast(score, threshold) == score.num >= threshold * score.den

\* LessonEngine._transition_to
_transition_to(e, state) ==
  IF e.session = None THEN e
  ELSE Emit([e EXCEPT !.session.state = state], "state_change", state, 0)

\* LessonEngine._speak: avatar message, speech and text of one utterance
_speak(e, what) == Emit(e, "speak", what, 0)

\* LessonEngine._get_current_exercises
_get_current_exercises(e) ==
  IF e.session = None THEN <<>>
  ELSE CASE e.session.state = "WARMUP" -> e.session.warmup_exercises
         [] e.session.state = "PRE_TEST" -> e.session.pretest_exercises
         [] e.session.state = "PRACTICE" -> e.session.practice_exercises
         [] e.session.state = "POST_TEST" -> e.session.posttest_exercises
         [] OTHER -> <<>>

\* sorted(practice_exercises, key=difficulty_tier, reverse=True): stable,
\* descending by tier; position k of the result.
RECURSIVE InsertByTierDesc(_, _)
InsertByTierDesc(sorted, x) ==
  IF sorted = <<>> THEN <<x>>
  ELSE IF ExerciseTable[Head(sorted)].difficulty_tier >= ExerciseTable[x].difficulty_tier
       THEN <<Head(sorted)>> \o InsertByTierDesc(Tail(sorted), x)
       ELSE <<x>> \o sorted
RECURSIVE SortByTierDesc(_)
SortByTierDesc(seq) ==
  IF seq = <<>> THEN <<>>
  ELSE InsertByTierDesc(SortByTierDesc(SubSeq(seq, 1, Len(seq) - 1)), seq[Len(seq)])

\* ------------------------------------------------------------------------
\* Phase starts, rendering and phase completion (mutually recursive, as the
\* methods are)
\* ------------------------------------------------------------------------
RECURSIVE _show_current_exercise(_)
RECURSIVE _show_current_chunk(_)
RECURSIVE _complete_phase(_)
RECURSIVE _start_pretest(_)
RECURSIVE _start_intro(_)
RECURSIVE _start_practice(_)
RECURSIVE _start_posttest(_)
RECURSIVE _finish_session(_)

\* LessonEngine._start_warmup
_start_warmup(e) ==
  LET e1 == [e EXCEPT !.session.current_exercise_idx = 0,
                      !.session.current_hints_used = 0]
      e2 == _speak(e1, "warmup")
      e3 == Emit(e2, "state_change", "WARMUP", 0)
  IN _show_current_exercise(e3)

\* LessonEngine._start_pretest
_start_pretest(e) ==
  LET e1 == [e EXCEPT !.session.current_exercise_idx = 0,
                      !.session.current_hints_used = 0]
  IN _show_current_exercise(_speak(e1, "pretest"))

\* LessonEngine._start_intro
_start_intro(e) ==
  LET e1 == _transition_to(e, "LESSON_INTRO")
      e2 == Emit(e1, "avatar_message", "intro", 0)
      e3 == [e2 EXCEPT !.session.current_chunk_idx = 0]
  IN _show_current_chunk(_transition_to(e3, "LESSON_CHUNK"))

\* LessonEngine._start_practice
_start_practice(e) ==
  LET e1 == _transition_to(e, "PRACTICE")
      e2 == [e1 EXCEPT !.session.current_exercise_idx = 0,
                       !.session.current_hints_used = 0]
  IN _show_current_exercise(_speak(e2, "practice"))

\* LessonEngine._start_posttest
_start_posttest(e) ==
  LET e1 == _transition_to(e, "POST_TEST")
      e2 == [e1 EXCEPT !.session.current_exercise_idx = 0,
                       !.session.current_hints_used = 0]
      e3 == IF e2.session.posttest_exercises = <<>>
               /\ e2.session.practice_exercises # <<>>
            THEN [e2 EXCEPT !.session.posttest_exercises =
                    Take(SortByTierDesc(e2.session.practice_exercises), POSTTEST_COUNT)]
            ELSE e2
  IN _show_current_exercise(_speak(e3, "posttest"))

\* LessonEngine._show_current_exercise
_show_current_exercise(e) ==
  LET exercises == _get_current_exercises(e)
      idx == e.session.current_exercise_idx
  IN IF exercises = <<>> \/ idx >= Len(exercises)
     THEN _complete_phase(e)
     ELSE Emit(e, "show_exercise", e.session.state, exercises[idx + 1])

\* LessonEngine._show_current_chunk
_show_current_chunk(e) ==
  LET idx == e.session.current_chunk_idx IN
  IF e.session.theory_chunks = <<>> THEN _start_practice(e)
  ELSE IF idx >= Len(e.session.theory_chunks) THEN _start_practice(e)
  ELSE LET e1 == _speak(e, "chunk") IN
       IF get_micro_quiz_for_lesson(e.session.lesson, idx)
       THEN Emit(_transition_to([e1 EXCEPT !.micro_quiz_ex = "quiz"], "MICRO_QUIZ"),
                 "show_exercise", "MICRO_QUIZ", idx + 1)
       ELSE [e1 EXCEPT !.micro_quiz_ex = "None"]

\* LessonEngine._complete_phase
_complete_phase(e) ==
  LET st == e.session.state IN
  CASE st = "WARMUP" ->
         LET e1 == _speak(e, "warmup_done") IN
         IF e1.session.pretest_exercises # <<>>
         THEN _start_pretest(_transition_to(e1, "PRE_TEST"))
         ELSE _start_intro(e1)
    [] st = "PRE_TEST" ->
         LET score == get_pretest_score(e.session)
             e1 == Emit(e, "phase_complete", "pretest", 0)
         IN IF ScoreAtLeast(score, PRETEST_PASS_SCORE)
            THEN LET n == Len(e1.session.theory_chunks)
                     e2 == [_speak(e1, "pretest_passed") EXCEPT
                              !.session.current_chunk_idx = IF n - 2 > 0 THEN n - 2 ELSE 0]
                 IN _show_current_chunk(_transition_to(e2, "LESSON_CHUNK"))
            ELSE _start_intro(e1)
    [] st = "PRACTICE" ->
         _start_posttest(Emit(e, "phase_complete", "practice", 0))
    [] st = "POST_TEST" ->
         _finish_session(Emit(e, "phase_complete", "posttest", 0))
    [] OTHER -> e

\* Variant of _finish_session: the session-done callback fires before the
\* state becomes DONE.
_finish_session_done_first(e) ==
  LET post == get_posttest_score(e.session)
      passed == ScoreAtLeast(post, POSTTEST_PASS_SCORE)
      s == e.session
      e1 == IF s.session_id # 0
            THEN Emit(Emit([e EXCEPT
                    !.db.ended = Append(@, [session_id |-> s.session_id, score |-> post,
                        total_q |-> Len(s.posttest_results) + Len(s.practice_results)
                                    + Len(s.pretest_results)]),
                    !.db.progress = Append(@, [lesson_id |-> s.lesson.id, score |-> post,
                                               passed |-> passed])],
                   "store", "end_session", 0), "store", "update_progress", 0)
            ELSE e
      e2 == _speak(_transition_to(e1, "SUMMARY"), "summary")
      e3 == Emit(e2, "done", IF passed THEN "passed" ELSE "failed", 0)
  IN _transition_to(e3, "DONE")

\* LessonEngine._finish_session.  The two store calls are also noted in the
\* trace of the step, before the callbacks that follow them.
_finish_session(e) ==
  LET post == get_posttest_score(e.session)
      passed == ScoreAtLeast(post, POSTTEST_PASS_SCORE)
      s == e.session
      e1 == IF s.session_id # 0
            THEN Emit(Emit([e EXCEPT
                    !.db.ended = Append(@, [session_id |-> s.session_id, score |-> post,
                        total_q |-> Len(s.posttest_results) + Len(s.practice_results)
                                    + Len(s.pretest_results)]),
                    !.db.progress = Append(@, [lesson_id |-> s.lesson.id, score |-> post,
                                               passed |-> passed])],
                   "store", "end_session", 0), "store", "update_progress", 0)
            ELSE e
      e2 == _speak(_transition_to(e1, "SUMMARY"), "summary")
      e3 == _transition_to(e2, "DONE")
  IN Emit(e3, "done", IF passed THEN "passed" ELSE "failed", 0)

\* ------------------------------------------------------------------------
\* Answer handling
\* ------------------------------------------------------------------------
\* Variant of _calc_srs_quality: grade 2 is given for exactly two hints.
_calc_srs_quality_two_hints(is_correct, hints_used, time_sec, avg_num, avg_den) ==
  IF ~is_correct THEN 1
  ELSE IF hints_used = 2 THEN 2
  ELSE IF hints_used = 1 THEN 3
  ELSE IF time_sec > 0 /\ avg_num > 0 /\ 10 * time_sec * avg_den <= 7 * avg_num THEN 5
  ELSE 4

\* LessonEngine._calc_srs_quality; avg_time is the fraction avg_num/avg_den
\* and time_sec <= avg_time * 0.7 is compared by cross multiplication.
_calc_srs_quality(is_correct, hints_used, time_sec, avg_num, avg_den) ==
  IF ~is_correct THEN 1
  ELSE IF hints_used >= 2 THEN 2
  ELSE IF hints_used = 1 THEN 3
  ELSE IF time_sec > 0 /\ avg_num > 0 /\ 10 * time_sec * avg_den <= 7 * avg_num THEN 5
  ELSE 4

\* The fallback skill code derived from the lesson's subject and grade.
FallbackSkillCode(lesson) ==
  LET prefix == CASE lesson.subject = "MATEMATICA" -> "MATH"
                  [] lesson.subject \in {"LIMBA ROMANA", "COMUNICARE"} -> "RO"
                  [] OTHER -> "GEN"
  IN prefix \o "_" \o ToString(lesson.grade)

\* tier_weights, in hundredths
TierWeight(tier) ==
  CASE tier = 1 -> 33 [] tier = 2 -> 67 [] tier = 3 -> 100 [] tier = 4 -> 133
    [] OTHER -> 100

\* The streak counters after an answer (the feedback branch).
Streaks(s, is_correct) ==
  IF is_correct
  THEN [s EXCEPT !.correct_streak = @ + 1, !.consecutive_wrong = 0,
                 !.tier_up_streak = @ + 1, !.tier_down_count = 0]
  ELSE [s EXCEPT !.correct_streak = 0, !.consecutive_wrong = @ + 1,
                 !.tier_up_streak = 0, !.tier_down_count = @ + 1]

\* Variant of AdjustTier: the raise forgets to reset the counter.
AdjustTier_no_up_reset(s) ==
  IF s.tier_up_streak >= TIER_UP_AT /\ s.current_tier < TIER_CAP
  THEN [s EXCEPT !.current_tier = IF @ + 1 < TIER_CAP THEN @ + 1 ELSE TIER_CAP]
  ELSE IF s.tier_down_count >= TIER_DOWN_AT /\ s.current_tier > TIER_FLOOR
  THEN [s EXCEPT !.current_tier = IF @ - 1 > TIER_FLOOR THEN @ - 1 ELSE TIER_FLOOR,
                 !.tier_down_count = 0]
  ELSE s

\* Variant of AdjustTier: the tier is lowered after three wrong answers
\* instead of two.
AdjustTier_down_at_three(s) ==
  IF s.tier_up_streak >= TIER_UP_AT /\ s.current_tier < TIER_CAP
  THEN [s EXCEPT !.current_tier = IF @ + 1 < TIER_CAP THEN @ + 1 ELSE TIER_CAP,
                 !.tier_up_streak = 0]
  ELSE IF s.tier_down_count >= TIER_DOWN_AT + 1 /\ s.current_tier > TIER_FLOOR
  THEN [s EXCEPT !.current_tier = IF @ - 1 > TIER_FLOOR THEN @ - 1 ELSE TIER_FLOOR,
                 !.tier_down_count = 0]
  ELSE s

\* Variant of AdjustTier: the streak raises the tier up to 4.
AdjustTier_cap_four(s) ==
  IF s.tier_up_streak >= TIER_UP_AT /\ s.current_tier < TIER_CAP + 1
  THEN [s EXCEPT !.current_tier = @ + 1, !.tier_up_streak = 0]
  ELSE IF s.tier_down_count >= TIER_DOWN_AT /\ s.current_tier > TIER_FLOOR
  THEN [s EXCEPT !.current_tier = IF @ - 1 > TIER_FLOOR THEN @ - 1 ELSE TIER_FLOOR,
                 !.tier_down_count = 0]
  ELSE s

\* DDA: the tier after the streak counters were updated.
AdjustTier(s) ==
  IF s.tier_up_streak >= TIER_UP_AT /\ s.current_tier < TIER_CAP
  THEN [s EXCEPT !.current_tier = IF @ + 1 < TIER_CAP THEN @ + 1 ELSE TIER_CAP,
                 !.tier_up_streak = 0]
  ELSE IF s.tier_down_count >= TIER_DOWN_AT /\ s.current_tier > TIER_FLOOR
  THEN [s EXCEPT !.current_tier = IF @ - 1 > TIER_FLOOR THEN @ - 1 ELSE TIER_FLOOR,
                 !.tier_down_count = 0]
  ELSE s

\* Variant of AppendResult: the list keeps only the latest result.
AppendResult_keep_latest(s, qr) ==
  CASE s.state = "PRE_TEST" -> [s EXCEPT !.pretest_results = <<qr>>]
    [] s.state = "PRACTICE" -> [s EXCEPT !.practice_results = <<qr>>]
    [] s.state = "POST_TEST" -> [s EXCEPT !.posttest_results = <<qr>>]
    [] OTHER -> s

\* The phase result list the QuestionResult is appended to.
AppendResult(s, qr) ==
  CASE s.state = "PRE_TEST" -> [s EXCEPT !.pretest_results = Append(@, qr)]
    [] s.state = "PRACTICE" -> [s EXCEPT !.practice_results = Append(@, qr)]
    [] s.state = "POST_TEST" -> [s EXCEPT !.posttest_results = Append(@, qr)]
    [] OTHER -> s

\* Variant of RecordInStore: a wrong answer is left to mark_exercise_wrong
\* and is not sent to the scheduler.
RecordInStore_no_srs_on_wrong(d, s, ex, qr) ==
  LET d1 == IF s.session_id # 0 /\ qr.exercise_id > 0
            THEN [d EXCEPT !.answers = Append(@, [exercise_id |-> qr.exercise_id,
                                                 is_correct |-> qr.is_correct,
                                                 hints_used |-> qr.hints_used])]
            ELSE d
      d2 == IF s.session_id # 0
            THEN [d1 EXCEPT !.skills = Append(@,
                    [skill_codes |-> IF ex.skill_codes = {}
                                     THEN {FallbackSkillCode(s.lesson)}
                                     ELSE ex.skill_codes,
                     is_correct |-> qr.is_correct,
                     hints_used |-> qr.hints_used,
                     weight |-> TierWeight(s.current_tier)])]
            ELSE d1
      d3 == IF qr.is_correct /\ qr.exercise_id > 0 /\ s.session_id # 0
            THEN [d2 EXCEPT !.srs = Append(@,
                    [exercise_id |-> qr.exercise_id,
                     quality |-> _calc_srs_quality(qr.is_correct, qr.hints_used,
                                   qr.time_sec,
                                   IF s.time_sum = 0 THEN DEFAULT_AVG_TIME ELSE s.time_sum,
                                   IF s.time_sum = 0 THEN 1 ELSE s.answers_count)])]
            ELSE d2
  IN IF ~qr.is_correct /\ qr.exercise_id > 0
     THEN [d3 EXCEPT !.wrong = Append(@, qr.exercise_id)]
     ELSE d3

\* The store calls of one answer: record_answer, update_user_skills,
\* record_srs_answer, mark_exercise_wrong, in this order.
RecordInStore(d, s, ex, qr) ==
  LET d1 == IF s.session_id # 0 /\ qr.exercise_id > 0
            THEN [d EXCEPT !.answers = Append(@, [exercise_id |-> qr.exercise_id,
                                                 is_correct |-> qr.is_correct,
                                                 hints_used |-> qr.hints_used])]
            ELSE d
      d2 == IF s.session_id # 0
            THEN [d1 EXCEPT !.skills = Append(@,
                    [skill_codes |-> IF ex.skill_codes = {}
                                     THEN {FallbackSkillCode(s.lesson)}
                                     ELSE ex.skill_codes,
                     is_correct |-> qr.is_correct,
                     hints_used |-> qr.hints_used,
                     weight |-> TierWeight(s.current_tier)])]
            ELSE d1
      d3 == IF qr.exercise_id > 0 /\ s.session_id # 0
            THEN [d2 EXCEPT !.srs = Append(@,
                    [exercise_id |-> qr.exercise_id,
                     quality |-> _calc_srs_quality(qr.is_correct, qr.hints_used,
                                   qr.time_sec,
                                   IF s.time_sum = 0 THEN DEFAULT_AVG_TIME ELSE s.time_sum,
                                   IF s.time_sum = 0 THEN 1 ELSE s.answers_count)])]
            ELSE d2
  IN IF ~qr.is_correct /\ qr.exercise_id > 0
     THEN [d3 EXCEPT !.wrong = Append(@, qr.exercise_id)]
     ELSE d3

\* Variant of _trigger_alt_explanation: the chunk index is not clamped
\* before the round-robin step.
_trigger_alt_explanation_unclamped(e) ==
  LET n == Len(e.session.theory_chunks)
      c == e.session.current_chunk_idx
  IN IF n = 0 THEN _show_current_exercise(e)
     ELSE IF n = 1 THEN _show_current_exercise(_speak(e, "recap"))
     ELSE _transition_to(
            _speak([e EXCEPT !.session.current_chunk_idx = (c + 1) % n],
                   "alt_explanation"),
            "LESSON_CHUNK")

\* LessonEngine._trigger_alt_explanation
_trigger_alt_explanation(e) ==
  LET n == Len(e.session.theory_chunks)
      c == e.session.current_chunk_idx
      current == IF c > n - 1 THEN (IF n - 1 > 0 THEN n - 1 ELSE 0)
                 ELSE (IF c > 0 THEN c ELSE 0)
  IN IF n = 0 THEN _show_current_exercise(e)
     ELSE IF n = 1 THEN _show_current_exercise(_speak(e, "recap"))
     ELSE _transition_to(
            _speak([e EXCEPT !.session.current_chunk_idx = (current + 1) % n],
                   "alt_explanation"),
            "LESSON_CHUNK")

\* What the third consecutive wrong answer does to the exercise index.
IndexAfterThirdWrong(idx) == idx + 1

\* LessonEngine._answer_exercise.  exercises[idx] raises IndexError when the
\* index is past the list; nothing has been changed by then.
_answer_exercise(e, is_correct, time_sec) ==
  LET exercises == _get_current_exercises(e)
      idx == e.session.current_exercise_idx
  IN IF idx >= Len(exercises) THEN [e EXCEPT !.ret = "IndexError"]
     ELSE
       LET ex == ExerciseTable[exercises[idx + 1]]
           s1 == [e.session EXCEPT !.answers_count = @ + 1, !.time_sum = @ + time_sec]
           s2 == Streaks(s1, is_correct)
           s3 == AdjustTier(s2)
           qr == [exercise_id |-> ex.id, is_correct |-> is_correct,
                  hints_used |-> s3.current_hints_used, time_sec |-> time_sec]
           s4 == AppendResult(s3, qr)
           e1 == [e EXCEPT !.session = s4, !.db = RecordInStore(e.db, s4, ex, qr)]
           e2 == IF s3.current_tier # e.session.current_tier
                 THEN Emit(e1, "avatar_message", "tier", s3.current_tier)
                 ELSE e1
           e3 == Emit(e2, "exercise_result", IF is_correct THEN "correct" ELSE "wrong",
                      ex.id)
           e4 == _speak(e3, "feedback")
       IN IF e4.session.consecutive_wrong >= ALT_EXPLAIN_AT
          THEN _trigger_alt_explanation(
                 [e4 EXCEPT !.session.consecutive_wrong = 0,
                            !.session.current_hints_used = 0,
                            !.session.current_exercise_idx = IndexAfterThirdWrong(@)])
          ELSE [e4 EXCEPT !.session.current_hints_used = 0,
                          !.session.current_exercise_idx = @ + 1,
                          !.waiting_for_continue = TRUE]

\* The store writes of one answer, in call order.
StoreWrites ==
  <<"record_answer", "update_user_skills", "record_srs_answer", "mark_exercise_wrong">>

\* The store calls of one answer when write number k raises: the writes
\* before it are done, the failed one and those after it are not.
RecordInStoreUntil(d, s, ex, qr, k) ==
  LET r == RecordInStore(d, s, ex, qr)
  IN [d EXCEPT !.answers = IF k > 1 THEN r.answers ELSE @,
               !.skills = IF k > 2 THEN r.skills ELSE @,
               !.srs = IF k > 3 THEN r.srs ELSE @,
               !.failed = @ + 1]

\* LessonEngine._answer_exercise when store write number k raises: no store
\* call is guarded, so the exception leaves the method at that call, after
\* the counters, the tier and the result list were updated and before the
\* result callback, the feedback and the index update.
_answer_exercise_write_fails(e, is_correct, time_sec, k) ==
  LET exercises == _get_current_exercises(e)
      idx == e.session.current_exercise_idx
  IN IF idx >= Len(exercises) THEN [e EXCEPT !.ret = "IndexError"]
     ELSE
       LET ex == ExerciseTable[exercises[idx + 1]]
           s1 == [e.session EXCEPT !.answers_count = @ + 1, !.time_sum = @ + time_sec]
           s2 == Streaks(s1, is_correct)
           s3 == AdjustTier(s2)
           qr == [exercise_id |-> ex.id, is_correct |-> is_correct,
                  hints_used |-> s3.current_hints_used, time_sec |-> time_sec]
           s4 == AppendResult(s3, qr)
           e1 == [e EXCEPT !.session = s4,
                           !.db = RecordInStoreUntil(e.db, s4, ex, qr, k)]
           e2 == IF s3.current_tier # e.session.current_tier
                 THEN Emit(e1, "avatar_message", "tier", s3.current_tier)
                 ELSE e1
       IN [e2 EXCEPT !.ret = "sqlite3.Error"]

\* Variant of _answer_micro_quiz: a wrong answer moves on to the next chunk
\* as a correct one does.
_answer_micro_quiz_wrong_advances(e, ok) ==
  IF e.micro_quiz_ex # "quiz"
  THEN _show_current_chunk(
         [_transition_to(e, "LESSON_CHUNK") EXCEPT !.session.current_chunk_idx = @ + 1])
  ELSE IF ok
  THEN _show_current_chunk(
         [_transition_to(_speak(e, "encourage"), "LESSON_CHUNK")
            EXCEPT !.session.current_chunk_idx = @ + 1])
  ELSE _show_current_chunk(
         [_transition_to(_speak(e, "reteach"), "LESSON_CHUNK")
            EXCEPT !.session.current_chunk_idx = @ + 1])

\* LessonEngine._answer_micro_quiz; ok is the outcome of the comparison
_answer_micro_quiz(e, ok) ==
  IF e.micro_quiz_ex # "quiz"
  THEN _show_current_chunk(
         [_transition_to(e, "LESSON_CHUNK") EXCEPT !.session.current_chunk_idx = @ + 1])
  ELSE IF ok
  THEN _show_current_chunk(
         [_transition_to(_speak(e, "encourage"), "LESSON_CHUNK")
            EXCEPT !.session.current_chunk_idx = @ + 1])
  ELSE _show_current_chunk(_transition_to(_speak(e, "reteach"), "LESSON_CHUNK"))

\* ------------------------------------------------------------------------
\* Public operations, as functions of the engine value
\* ------------------------------------------------------------------------
\* States in which submit_answer is accepted
AnswerStates == {"PRE_TEST", "PRACTICE", "POST_TEST", "MICRO_QUIZ"}
\* Variant of HintStates: hints are also given during the warm-up.
HintStates_with_warmup == {"WARMUP", "PRE_TEST", "PRACTICE", "POST_TEST"}

\* States in which request_hint is accepted
HintStates == {"PRE_TEST", "PRACTICE", "POST_TEST"}
\* Variant of NoPauseStates: a paused session can be paused again.
NoPauseStates_done_only == {"DONE"}
\* Variant of NoPauseStates: a finished session can be paused.
NoPauseStates_paused_only == {"PAUSED"}

\* States in which pause is refused
NoPauseStates == {"PAUSED", "DONE"}
\* Variant of ChunkStates: next_chunk also skips a pending micro quiz.
ChunkStates_with_micro_quiz == {"LESSON_CHUNK", "LESSON_INTRO", "MICRO_QUIZ"}

\* States in which next_chunk is accepted
ChunkStates == {"LESSON_CHUNK", "LESSON_INTRO"}

\* LessonEngine._split_theory: the chunks of the lesson's theory text
_split_theory(lesson) == [i \in 1..lesson.chunks |-> i]

\* Variant of start: the pretest is preferred to the warm-up.
start_pretest_first(e, lesson_id, srs_due) ==
  LET lesson == get_lesson(lesson_id) IN
  IF lesson = None THEN e
  ELSE
    LET sid == e.db.sessions + 1
        s == [LessonSession(lesson) EXCEPT
                !.pretest_exercises = get_exercises(lesson, "pretest", PRETEST_COUNT),
                !.practice_exercises = get_exercises(lesson, "practice", PRACTICE_COUNT),
                !.posttest_exercises = get_exercises(lesson, "posttest", POSTTEST_COUNT),
                !.theory_chunks = _split_theory(lesson),
                !.session_id = sid]
        e1 == [e EXCEPT !.session = s, !.db = [EmptyDb EXCEPT !.sessions = sid]]
    IN IF s.pretest_exercises # <<>>
       THEN _start_pretest(_transition_to(e1, "PRE_TEST"))
       ELSE IF srs_due # <<>>
       THEN _start_warmup(_transition_to(
              [e1 EXCEPT !.session.warmup_exercises = Take(srs_due, SRS_DUE_LIMIT)],
              "WARMUP"))
       ELSE _start_intro(e1)

\* Variant of start: a lesson that is not found drops the current session.
start_drop_on_missing(e, lesson_id, srs_due) ==
  LET lesson == get_lesson(lesson_id) IN
  IF lesson = None THEN [e EXCEPT !.session = None]
  ELSE
    LET sid == e.db.sessions + 1
        s == [LessonSession(lesson) EXCEPT
                !.pretest_exercises = get_exercises(lesson, "pretest", PRETEST_COUNT),
                !.practice_exercises = get_exercises(lesson, "practice", PRACTICE_COUNT),
                !.posttest_exercises = get_exercises(lesson, "posttest", POSTTEST_COUNT),
                !.theory_chunks = _split_theory(lesson),
                !.session_id = sid]
        e1 == [e EXCEPT !.session = s, !.db = [EmptyDb EXCEPT !.sessions = sid]]
    IN IF srs_due # <<>>
       THEN _start_warmup(_transition_to(
              [e1 EXCEPT !.session.warmup_exercises = Take(srs_due, SRS_DUE_LIMIT)],
              "WARMUP"))
       ELSE IF s.pretest_exercises # <<>>
       THEN _start_pretest(_transition_to(e1, "PRE_TEST"))
       ELSE _start_intro(e1)

\* LessonEngine.start
start(e, lesson_id, srs_due) ==
  LET lesson == get_lesson(lesson_id) IN
  IF lesson = None THEN e
  ELSE
    LET sid == e.db.sessions + 1
        s == [LessonSession(lesson) EXCEPT
                !.pretest_exercises = get_exercises(lesson, "pretest", PRETEST_COUNT),
                !.practice_exercises = get_exercises(lesson, "practice", PRACTICE_COUNT),
                !.posttest_exercises = get_exercises(lesson, "posttest", POSTTEST_COUNT),
                !.theory_chunks = _split_theory(lesson),
                !.session_id = sid]
        e1 == [e EXCEPT !.session = s, !.db = [EmptyDb EXCEPT !.sessions = sid]]
    IN IF srs_due # <<>>
       THEN _start_warmup(_transition_to(
              [e1 EXCEPT !.session.warmup_exercises = Take(srs_due, SRS_DUE_LIMIT)],
              "WARMUP"))
       ELSE IF s.pretest_exercises # <<>>
       THEN _start_pretest(_transition_to(e1, "PRE_TEST"))
       ELSE _start_intro(e1)

\* LessonEngine.pause
pause(e) ==
  IF e.session # None /\ e.session.state \notin NoPauseStates
  THEN _speak(_transition_to([e EXCEPT !.prev_state = e.session.state], "PAUSED"),
              "paused")
  ELSE e

\* LessonEngine.resume
resume(e) ==
  IF e.session # None /\ e.session.state = "PAUSED"
  THEN LET e1 == _speak(_transition_to(e, IF e.prev_state = "None" THEN "PRACTICE"
                                          ELSE e.prev_state), "resumed")
       IN IF e1.session.state \in {"LESSON_CHUNK", "MICRO_QUIZ"}
          THEN _show_current_chunk(e1)
          ELSE _show_current_exercise(e1)
  ELSE e

\* tts_engine.AVATAR_MESSAGES: the keys that have messages
AVATAR_MESSAGES == {"welcome", "attention"}

\* tts_engine.get_message(key): a message of the key, "" when it has none
get_message(key) == IF key \in AVATAR_MESSAGES THEN "message" ELSE ""

\* ex.get("hint<nr>") or get_message("hint_<min(nr, 3)>"): the exercise's
\* hint text ("hint") when it has one, else the avatar message of the key
HintText(ex, hint_nr) ==
  IF hint_nr <= ex.hints THEN "hint"
  ELSE get_message("hint_" \o ToString(IF hint_nr < 3 THEN hint_nr ELSE 3))

\* LessonEngine.request_hint; ret is the hint returned ("None" when refused)
request_hint(e) ==
  IF e.session = None THEN e
  ELSE IF e.session.state \notin HintStates THEN e
  ELSE LET exercises == _get_current_exercises(e)
           idx == e.session.current_exercise_idx
       IN IF exercises = <<>> \/ idx >= Len(exercises) THEN e
          ELSE LET ex == ExerciseTable[exercises[idx + 1]]
                   hint_nr == e.session.current_hints_used + 1
                   text == HintText(ex, hint_nr)
                   e1 == [e EXCEPT !.session.current_hints_used = hint_nr]
               IN [Emit(_speak(e1, text), "show_hint", text, hint_nr)
                     EXCEPT !.ret = text]

\* Variant of submit_answer: warm-up answers are processed as exercise answers.
submit_answer_in_warmup(e, is_correct, time_sec) ==
  IF e.session = None THEN e
  ELSE IF e.session.state \notin (AnswerStates \cup {"WARMUP"}) THEN e
  ELSE IF e.session.state \in {"WARMUP", "PRE_TEST", "PRACTICE", "POST_TEST"}
  THEN _answer_exercise(e, is_correct, time_sec)
  ELSE IF e.session.state = "MICRO_QUIZ"
  THEN _answer_micro_quiz(e, is_correct)
  ELSE e

\* LessonEngine.submit_answer; is_correct is the outcome of comparing the
\* answer with the expected one, time_sec is meta["time_sec"]
submit_answer(e, is_correct, time_sec) ==
  IF e.session = None THEN e
  ELSE IF e.session.state \notin AnswerStates THEN e
  ELSE IF e.session.state \in {"PRE_TEST", "PRACTICE", "POST_TEST"}
  THEN _answer_exercise(e, is_correct, time_sec)
  ELSE IF e.session.state = "MICRO_QUIZ"
  THEN _answer_micro_quiz(e, is_correct)
  ELSE e

\* LessonEngine.submit_answer when store write number k raises; a micro quiz
\* answer writes nothing to the store.
submit_answer_write_fails(e, is_correct, time_sec, k) ==
  IF e.session = None THEN e
  ELSE IF e.session.state \notin AnswerStates THEN e
  ELSE IF e.session.state \in {"PRE_TEST", "PRACTICE", "POST_TEST"}
  THEN _answer_exercise_write_fails(e, is_correct, time_sec, k)
  ELSE IF e.session.state = "MICRO_QUIZ"
  THEN _answer_micro_quiz(e, is_correct)
  ELSE e

\* LessonEngine.advance_after_result
advance_after_result(e) ==
  IF e.session = None \/ ~e.waiting_for_continue THEN e
  ELSE _show_current_exercise([e EXCEPT !.waiting_for_continue = FALSE])

\* LessonEngine.next_chunk
next_chunk(e) ==
  IF e.session = None THEN e
  ELSE IF e.session.state \notin ChunkStates THEN e
  ELSE _show_current_chunk(
         _transition_to([e EXCEPT !.session.current_chunk_idx = @ + 1], "LESSON_CHUNK"))


\* ------------------------------------------------------------------------
\* Skill tracking of the persistent store (src/database.py)
\* ------------------------------------------------------------------------
\* Skill codes of the exercises and of the fallback
SkillCodes == {"SKILL_A", "MATH_4"}
\* skill_codes arguments of update_user_skills
SkillCodeLists == {<<>>, <<"SKILL_A">>, <<"SKILL_A", "MATH_4">>}
\* weight arguments, in hundredths: tier_weights of the engine's default tier
Weights == {67}
\* time_sec arguments (0: unknown)
SkillTimes == {0, 10}

\* No row of the skill for the learner
NoRow == [none |-> TRUE]

RECURSIVE GCD(_, _)
GCD(a, b) == IF b = 0 THEN a ELSE GCD(b, a % b)
\* A non-negative rational in lowest terms
Ratio(num, den) ==
  LET g == GCD(num, den) IN
  IF num = 0 THEN [num |-> 0, den |-> 1] ELSE [num |-> num \div g, den |-> den \div g]

\* Variant of ClampMastery: only the lower end is clamped.
ClampMastery_no_upper(m) == IF m < 0 THEN 0 ELSE m

\* max(0.0, min(1.0, m))
ClampMastery(m) == IF m < 0 THEN 0 ELSE IF m > MASTERY_ONE THEN MASTERY_ONE ELSE m

\* The row inserted on the first attempt on a skill
FirstRow(is_correct, time_sec, day) ==
  [mastery |-> IF is_correct THEN MASTERY_FIRST_CORRECT ELSE MASTERY_FIRST_WRONG,
   attempts |-> 1,
   correct |-> IF is_correct THEN 1 ELSE 0,
   avg_time |-> IF time_sec > 0 THEN Ratio(time_sec, 1) ELSE Ratio(0, 1),
   skill_streak |-> IF is_correct THEN 1 ELSE 0,
   mastery_level |-> 0,
   last_practiced |-> day]

\* Variant of NewLevel: the level is re-evaluated on every attempt.
NewLevel_every_attempt(row, attempts, correct, day) ==
  LET old_level == row.mastery_level
      max_(a, b) == IF a > b THEN a ELSE b
      raised == IF 100 * correct >= 90 * attempts /\ attempts >= 12
                THEN max_(old_level, 3)
                ELSE IF 100 * correct >= 85 * attempts /\ attempts >= 8
                THEN max_(old_level, 2)
                ELSE IF 100 * correct >= 80 * attempts /\ attempts >= 5
                THEN max_(old_level, 1)
                ELSE old_level
  IN IF 100 * correct < 50 * attempts /\ attempts >= 10 /\ raised > 0
     THEN max_(0, raised - 1)
     ELSE raised

\* Variant of NewLevel: the accuracy floors alone decide a raise.
NewLevel_no_attempt_floor(row, attempts, correct, day) ==
  LET old_level == row.mastery_level
      max_(a, b) == IF a > b THEN a ELSE b
      raised == IF 100 * correct >= 90 * attempts
                THEN max_(old_level, 3)
                ELSE IF 100 * correct >= 85 * attempts
                THEN max_(old_level, 2)
                ELSE IF 100 * correct >= 80 * attempts
                THEN max_(old_level, 1)
                ELSE old_level
  IN IF row.last_practiced = day THEN old_level
     ELSE IF 100 * correct < 50 * attempts /\ attempts >= 10 /\ raised > 0
     THEN max_(0, raised - 1)
     ELSE raised

\* mastery_level of the updated row: re-evaluated only when the skill was
\* last practised on another day; accuracy = correct / max(1, attempts) is
\* compared by cross multiplication (attempts >= 1 here).
NewLevel(row, attempts, correct, day) ==
  LET old_level == row.mastery_level
      max_(a, b) == IF a > b THEN a ELSE b
      raised == IF 100 * correct >= 90 * attempts /\ attempts >= 12
                THEN max_(old_level, 3)
                ELSE IF 100 * correct >= 85 * attempts /\ attempts >= 8
                THEN max_(old_level, 2)
                ELSE IF 100 * correct >= 80 * attempts /\ attempts >= 5
                THEN max_(old_level, 1)
                ELSE old_level
  IN IF row.last_practiced = day THEN old_level
     ELSE IF 100 * correct < 50 * attempts /\ attempts >= 10 /\ raised > 0
     THEN max_(0, raised - 1)
     ELSE raised

\* The row updated by a later attempt on the skill
UpdatedRow(row, is_correct, weight, time_sec, day) ==
  LET attempts == row.attempts + 1
      correct == row.correct + (IF is_correct THEN 1 ELSE 0)
      delta == IF is_correct THEN (MASTERY_STEP_UP * weight) \div WEIGHT_ONE
               ELSE 0 - (MASTERY_STEP_DOWN * weight) \div WEIGHT_ONE
  IN [mastery |-> ClampMastery(row.mastery + delta),
      attempts |-> attempts,
      correct |-> correct,
      avg_time |-> IF time_sec > 0
                   THEN Ratio(4 * row.avg_time.num + time_sec * row.avg_time.den,
                              5 * row.avg_time.den)
                   ELSE row.avg_time,
      skill_streak |-> IF is_correct THEN row.skill_streak + 1 ELSE 0,
      mastery_level |-> NewLevel(row, attempts, correct, day),
      last_practiced |-> day]

\* Database.update_user_skills: the table after the loop over skill_codes
RECURSIVE update_user_skills(_, _, _, _, _, _)
update_user_skills(table, skill_codes, is_correct, weight, time_sec, day) ==
  IF skill_codes = <<>> THEN table
  ELSE LET code == Head(skill_codes)
           row == table[code]
           new == IF row = NoRow THEN FirstRow(is_correct, time_sec, day)
                  ELSE UpdatedRow(row, is_correct, weight, time_sec, day)
       IN update_user_skills([table EXCEPT ![code] = new], Tail(skill_codes),
                             is_correct, weight, time_sec, day)

\* mastery_level of a skill (0 while it has no row)
LevelOf(table, code) == IF table[code] = NoRow THEN 0 ELSE table[code].mastery_level

\* No query of the store answered yet
NoReply == [op |-> "none"]

\* No run of _generate_exercises_background has been scheduled.
NoGeneration == [pc |-> "none"]

\* Variant of can_access_tier4: the rows found are not counted against the
\* codes asked for.
can_access_tier4_no_count(table, skill_codes) ==
  IF skill_codes = <<>> THEN FALSE
  ELSE LET rows == {code \in Range(skill_codes) : table[code] # NoRow}
       IN \A code \in rows : table[code].mastery_level >= 2

\* Database.can_access_tier4: rows are the user_skill rows of the learner
\* whose skill_code is IN the list (one row per tracked code).
can_access_tier4(table, skill_codes) ==
  IF skill_codes = <<>> THEN FALSE
  ELSE LET rows == {code \in Range(skill_codes) : table[code] # NoRow}
       IN IF Cardinality(rows) < Len(skill_codes) THEN FALSE
          ELSE \A code \in rows : table[code].mastery_level >= 2

\* Variant of mark_exercise_wrong: the interval is taken from the count read,
\* before it is incremented.
mark_exercise_wrong_count_read(stats, exercise_id, day) ==
  LET row == stats[exercise_id]
      read == IF row = NoRow THEN 0 ELSE row.wrong_count
      interval == IF read <= 1 THEN 1 ELSE IF read = 2 THEN 3 ELSE 7
  IN [stats EXCEPT ![exercise_id] =
        [wrong_count |-> read + 1, retry_after |-> day + interval]]

\* Database.mark_exercise_wrong: the stats table after the call on day.
mark_exercise_wrong(stats, exercise_id, day) ==
  LET row == stats[exercise_id]
      wrong_count == IF row = NoRow THEN 1 ELSE row.wrong_count + 1
      interval == IF wrong_count <= 1 THEN 1 ELSE IF wrong_count = 2 THEN 3 ELSE 7
  IN [stats EXCEPT ![exercise_id] =
        [wrong_count |-> wrong_count, retry_after |-> day + interval]]

\* The elements of a set as a list, as list(set) gives them in some order.
RECURSIVE ListOf(_)
ListOf(set) ==
  IF set = {} THEN <<>>
  ELSE LET x == CHOOSE y \in set : TRUE IN <<x>> \o ListOf(set \ {x})

\* skill_info.get(c, {}).get("mastery", 0.5), summed over the codes
RECURSIVE SumMastery(_, _)
SumMastery(table, codes) ==
  IF codes = {} THEN 0
  ELSE LET c == CHOOSE y \in codes : TRUE
       IN (IF table[c] = NoRow THEN MASTERY_ONE \div 2 ELSE table[c].mastery)
            + SumMastery(table, codes \ {c})

\* skill_info.get(c, {}).get("level", 0), summed over the codes
RECURSIVE SumLevel(_, _)
SumLevel(table, codes) ==
  IF codes = {} THEN 0
  ELSE LET c == CHOOSE y \in codes : TRUE
       IN (IF table[c] = NoRow THEN 0 ELSE table[c].mastery_level)
            + SumLevel(table, codes \ {c})

\* _priority(ex) of select_adaptive_exercises, as the exact fraction num/den:
\* weakness_score * match_score, 0.5 for an exercise without skill codes.
_priority(ex, table) ==
  LET codes == ex.skill_codes
      k == Cardinality(codes)
      ex_diff == IF ex.dificultate # 0 THEN ex.dificultate ELSE 1
      avg_level == SumLevel(table, codes) \div k
      target_diff == IF avg_level + 1 < 3 THEN avg_level + 1 ELSE 3
      gap == IF ex_diff >= target_diff THEN ex_diff - target_diff
             ELSE target_diff - ex_diff
      match4 == IF 4 - gap > 0 THEN 4 - gap ELSE 0
  IN IF codes = {} THEN [num |-> 1, den |-> 2]
     ELSE [num |-> (MASTERY_ONE * k - SumMastery(table, codes)) * match4,
           den |-> 4 * MASTERY_ONE * k]

\* priority a >= priority b
PriorityGE(a, b) == a.num * b.den >= b.num * a.den

\* sorted(all_exs, key=_priority, reverse=True): stable, descending
RECURSIVE InsertByPriorityDesc(_, _, _)
InsertByPriorityDesc(sorted, x, table) ==
  IF sorted = <<>> THEN <<x>>
  ELSE IF PriorityGE(_priority(ExerciseTable[Head(sorted)], table),
                     _priority(ExerciseTable[x], table))
       THEN <<Head(sorted)>> \o InsertByPriorityDesc(Tail(sorted), x, table)
       ELSE <<x>> \o sorted
RECURSIVE SortByPriorityDesc(_, _)
SortByPriorityDesc(seq, table) ==
  IF seq = <<>> THEN <<>>
  ELSE InsertByPriorityDesc(SortByPriorityDesc(SubSeq(seq, 1, Len(seq) - 1), table),
                            seq[Len(seq)], table)

\* The exercises due for review on the day: retry_after set and <= today
DueIds(stats, day) ==
  {id \in DOMAIN stats : stats[id] # NoRow /\ stats[id].retry_after <= day}

\* int(e.get("difficulty_tier") or e.get("dificultate") or 1)
TierOrRating(ex) ==
  IF ex.difficulty_tier # 0 THEN ex.difficulty_tier
  ELSE IF ex.dificultate # 0 THEN ex.dificultate ELSE 1

\* Variant of select_adaptive_exercises: a tier-4 exercise is kept when the
\* learner has access for the skill codes of that exercise.
select_adaptive_exercises_own_tags(table, stats, day, lesson_id, n) ==
  LET lesson == get_lesson(lesson_id)
      all_exs == IF lesson = None THEN <<>>
                 ELSE get_exercises(lesson, "practice", SELECT_POOL)
      kept == SelectSeq(all_exs, LAMBDA id :
                \/ TierOrRating(ExerciseTable[id]) < 4
                \/ can_access_tier4(table, ListOf(ExerciseTable[id].skill_codes)))
      scored == SortByPriorityDesc(kept, table)
      due_ids == DueIds(stats, day)
      due == SelectSeq(scored, LAMBDA id : id \in due_ids)
      rest == SelectSeq(scored, LAMBDA id : id \notin due_ids)
  IN IF all_exs = <<>> THEN <<>> ELSE Take(due \o rest, n)

\* Variant of select_adaptive_exercises: the pool keeps the order of the store.
select_adaptive_exercises_unsorted(table, stats, day, lesson_id, n) ==
  LET lesson == get_lesson(lesson_id)
      all_exs == IF lesson = None THEN <<>>
                 ELSE get_exercises(lesson, "practice", SELECT_POOL)
      all_skill_codes ==
        ListOf(UNION {ExerciseTable[id].skill_codes : id \in Range(all_exs)})
      tier4_ok == can_access_tier4(table, all_skill_codes)
      kept == IF tier4_ok THEN all_exs
              ELSE SelectSeq(all_exs, LAMBDA id : TierOrRating(ExerciseTable[id]) < 4)
      due_ids == DueIds(stats, day)
      due == SelectSeq(kept, LAMBDA id : id \in due_ids)
      rest == SelectSeq(kept, LAMBDA id : id \notin due_ids)
  IN IF all_exs = <<>> THEN <<>> ELSE Take(due \o rest, n)

\* Database.select_adaptive_exercises(user_id, lesson_id, n): the ids of the
\* exercises returned, in order.
select_adaptive_exercises(table, stats, day, lesson_id, n) ==
  LET lesson == get_lesson(lesson_id)
      all_exs == IF lesson = None THEN <<>>
                 ELSE get_exercises(lesson, "practice", SELECT_POOL)
      all_skill_codes ==
        ListOf(UNION {ExerciseTable[id].skill_codes : id \in Range(all_exs)})
      tier4_ok == can_access_tier4(table, all_skill_codes)
      kept == IF tier4_ok THEN all_exs
              ELSE SelectSeq(all_exs, LAMBDA id : TierOrRating(ExerciseTable[id]) < 4)
      scored == SortByPriorityDesc(kept, table)
      due_ids == DueIds(stats, day)
      due == SelectSeq(scored, LAMBDA id : id \in due_ids)
      rest == SelectSeq(scored, LAMBDA id : id \notin due_ids)
  IN IF all_exs = <<>> THEN <<>> ELSE Take(due \o rest, n)

\* ------------------------------------------------------------------------
\* Answer comparison (src/lesson_engine.py); a text is a sequence of characters
\* ------------------------------------------------------------------------
Digit == {"0", "1", "2", "3", "4", "5", "6", "7", "8", "9"}
Letter == {"a", "d", "n", "s", "u", "A", "D", "N", "S", "U"}
IsSpace(c) == c = " "

\* str.lower on one character
Lower1(c) ==
  CASE c = "A" -> "a" [] c = "D" -> "d" [] c = "N" -> "n" [] c = "S" -> "s"
    [] c = "U" -> "u" [] OTHER -> c
Lower(t) == [i \in 1..Len(t) |-> Lower1(t[i])]

\* str.strip
RECURSIVE Strip(_)
Strip(t) ==
  IF t = <<>> THEN t
  ELSE IF IsSpace(Head(t)) THEN Strip(Tail(t))
  ELSE IF IsSpace(t[Len(t)]) THEN Strip(SubSeq(t, 1, Len(t) - 1))
  ELSE t

\* (\d{1,3})<sep>(\d{3})(?!\d) tried at position i: the length of the first
\* group of the match (3, 2 or 1, the longest first), 0 when there is none.
MatchGroup(t, i, sep) ==
  LET Fits(g) ==
        /\ i + g + 3 <= Len(t)
        /\ \A k \in i..(i + g - 1) : t[k] \in Digit
        /\ t[i + g] = sep
        /\ \A k \in (i + g + 1)..(i + g + 3) : t[k] \in Digit
        /\ (i + g + 4 <= Len(t) => t[i + g + 4] \notin Digit)
  IN IF Fits(3) THEN 3 ELSE IF Fits(2) THEN 2 ELSE IF Fits(1) THEN 1 ELSE 0

\* re.sub(r"(\d{1,3})<sep>(\d{3})(?!\d)", r"\1\2", t) from position i on: one
\* pass, the matches taken left to right without overlap.
RECURSIVE ReSub(_, _, _)
ReSub(t, i, sep) ==
  IF i > Len(t) THEN <<>>
  ELSE LET g == MatchGroup(t, i, sep)
       IN IF g > 0
          THEN SubSeq(t, i, i + g - 1) \o SubSeq(t, i + g + 1, i + g + 3)
                 \o ReSub(t, i + g + 4, sep)
          ELSE <<t[i]>> \o ReSub(t, i + 1, sep)

\* LessonEngine._normalize_answer
_normalize_answer(text) ==
  LET t0 == Lower(Strip(text))
      t1 == ReSub(t0, 1, ".")
      t2 == ReSub(t1, 1, ".")
      t3 == ReSub(t2, 1, " ")
  IN ReSub(t3, 1, " ")

\* re.search(r"\bsau\b", text, flags=re.IGNORECASE)
HasSauWord(t) ==
  \E i \in 1..Len(t) :
    /\ i + 2 <= Len(t)
    /\ Lower1(t[i]) = "s" /\ Lower1(t[i + 1]) = "a" /\ Lower1(t[i + 2]) = "u"
    /\ (i > 1 => t[i - 1] \notin (Digit \cup Letter))
    /\ (i + 3 <= Len(t) => t[i + 3] \notin (Digit \cup Letter))

\* The position after the run of spaces that starts at i
RECURSIVE SpanSpaces(_, _)
SpanSpaces(t, i) ==
  IF i <= Len(t) /\ IsSpace(t[i]) THEN SpanSpaces(t, i + 1) ELSE i

\* \s+sau\s+ (IGNORECASE) tried at position i: the position after the match,
\* 0 when there is none.
SeparatorEnd(t, i) ==
  LET j == SpanSpaces(t, i)
  IN IF /\ j > i
        /\ j + 3 <= Len(t)
        /\ Lower1(t[j]) = "s" /\ Lower1(t[j + 1]) = "a" /\ Lower1(t[j + 2]) = "u"
        /\ IsSpace(t[j + 3])
     THEN SpanSpaces(t, j + 3)
     ELSE 0

\* re.split(r"\s+sau\s+", t, flags=re.IGNORECASE): the pieces from position from on,
\* the scan being at position i.
RECURSIVE SplitSau(_, _, _)
SplitSau(t, from, i) ==
  IF i > Len(t) THEN <<SubSeq(t, from, Len(t))>>
  ELSE IF SeparatorEnd(t, i) > 0
       THEN <<SubSeq(t, from, i - 1)>>
              \o SplitSau(t, SeparatorEnd(t, i), SeparatorEnd(t, i))
       ELSE SplitSau(t, from, i + 1)

\* Variant of IsCorrect: the alternates are compared as they are written.
IsCorrect_raw_alternates(raspuns, answer) ==
  LET correct == Strip(raspuns)
      user_n == _normalize_answer(Strip(answer))
  IN IF user_n = _normalize_answer(correct) THEN TRUE
     ELSE IF HasSauWord(correct)
     THEN user_n \in Range(SplitSau(correct, 1, 1))
     ELSE FALSE

\* is_correct of LessonEngine._answer_exercise: the answer against the
\* expected answer (raspuns) of the exercise.
IsCorrect(raspuns, answer) ==
  LET correct == Strip(raspuns)
      user_n == _normalize_answer(Strip(answer))
  IN IF user_n = _normalize_answer(correct) THEN TRUE
     ELSE IF HasSauWord(correct)
     THEN user_n \in {_normalize_answer(alt) : alt \in Range(SplitSau(correct, 1, 1))}
     ELSE FALSE

\* ------------------------------------------------------------------------
\* Free questions (src/lesson_engine.py)
\* ------------------------------------------------------------------------
\* LessonEngine.ask_free_question, up to the start of its thread: ret is
\* "thread" when the _bg thread is started.  The question is a text.
ask_free_question(e, question) ==
  IF e.session = None \/ Strip(question) = <<>> THEN e
  ELSE [e EXCEPT !.ret = "thread"]

\* What the collaborator does with a question: it answers, its call fails or
\* times out (ask returns None), or it is not available.
AskOutcomes == {"answer", "None", "unavailable"}

\* Variant of _bg: nothing is said when the collaborator gave no answer.
_bg_silent_on_failure(e, outcome) ==
  IF outcome = "answer" THEN _speak(e, "answer") ELSE e

\* The thread body _bg of ask_free_question: the answer, or one of the two
\* deflections, is spoken once.
_bg(e, outcome) ==
  _speak(e, CASE outcome = "unavailable" -> "deflection_unavailable"
              [] outcome = "None" -> "deflection_rephrase"
              [] OTHER -> "answer")

\* ------------------------------------------------------------------------
\* Theory of the textbook and generated exercises (src/lesson_engine.py)
\* ------------------------------------------------------------------------
\* The exercises of a lesson, of every phase (exercises.lesson_id)
LessonExercises(lesson) ==
  Range(lesson.pre) \cup Range(lesson.practice) \cup Range(lesson.post)

\* ORDER BY s.wrong_count DESC, e.dificultate ASC; rows that tie are taken
\* in id order.
DueBefore(stats, a, b) ==
  \/ stats[a].wrong_count > stats[b].wrong_count
  \/ /\ stats[a].wrong_count = stats[b].wrong_count
     /\ \/ ExerciseTable[a].dificultate < ExerciseTable[b].dificultate
        \/ /\ ExerciseTable[a].dificultate = ExerciseTable[b].dificultate
           /\ a < b
RECURSIVE DueOrder(_, _)
DueOrder(ids, stats) ==
  IF ids = {} THEN <<>>
  ELSE LET first == CHOOSE a \in ids : \A b \in ids \ {a} : DueBefore(stats, a, b)
       IN <<first>> \o DueOrder(ids \ {first}, stats)

\* Database.get_due_exercises(user_id, lesson_id): the ids of the exercises
\* of the lesson that are due on the day, in order.
get_due_exercises(stats, day, lesson_id) ==
  LET lesson == get_lesson(lesson_id)
  IN IF lesson = None THEN <<>>
     ELSE DueOrder(DueIds(stats, day) \cap LessonExercises(lesson), stats)

\* LessonEngine._has_real_exercises: at least three practice rows of the
\* lesson with length(enunt) >= 30 that are not LIKE the two patterns written
\* without diacritics.  The seeded text carries diacritics and is long enough,
\* so a seeded row is counted.
_has_real_exercises(lesson_id) ==
  LET lesson == get_lesson(lesson_id)
  IN IF lesson_id = 0 \/ lesson = None THEN FALSE
     ELSE Cardinality({id \in Range(lesson.practice) :
                         ExerciseTable[id].enunt \in {"real", "seeded"}}) >= 3

\* LessonEngine._is_placeholder_exercise: len(enunt) < 20 or one of
\* _PLACEHOLDER_PATTERNS occurs in enunt
_is_placeholder_exercise(id) == ExerciseTable[id].enunt \in {"short", "seeded"}

\* LessonEngine.set_theory_chunks(chunks).  A chunk is given by the length of
\* its text and of its text stripped, and a chunk kept stands in the session
\* as the length of its text; prior_attempts: the learner's row of
\* progress for the lesson has attempts > 0; available: deepseek.available.
\* ret is "timer" when the call starts the timer of
\* _generate_exercises_background.
set_theory_chunks(e, chunks, prior_attempts, available, table, stats, day) ==
  LET clean == SelectSeq(chunks, LAMBDA c : c.stripped > 10) IN
  IF e.session = None \/ clean = <<>> THEN e
  ELSE
    LET lesson_id == e.session.lesson.id
        adaptive == IF prior_attempts
                    THEN select_adaptive_exercises(table, stats, day, lesson_id,
                                                   PRACTICE_COUNT)
                    ELSE <<>>
        practice == IF adaptive # <<>> THEN adaptive
                    ELSE e.session.practice_exercises
        due == get_due_exercises(stats, day, lesson_id)
        extras == SelectSeq(due, LAMBDA id : id \notin Range(practice))
        timer == available /\ ~_has_real_exercises(lesson_id)
    IN [e EXCEPT !.session.theory_chunks = [i \in 1..Len(clean) |-> clean[i].len],
                 !.session.current_chunk_idx = 0,
                 !.session.practice_exercises = extras \o practice,
                 !.ret = IF timer THEN "timer" ELSE "None"]

\* The phases _generate_exercises_background goes through, in order, with
\* the count asked for and the ids its valid generated rows get in the store.
GenPhases ==
  <<[phase |-> "practice", count |-> PRACTICE_COUNT, ids |-> <<20, 21>>],
    [phase |-> "posttest", count |-> POSTTEST_COUNT, ids |-> <<22, 23>>],
    [phase |-> "pretest", count |-> PRETEST_COUNT, ids |-> <<24, 25>>]>>

\* The list of a session that the phase of the run refers to
PhaseList(s, phase) ==
  CASE phase = "practice" -> s.practice_exercises
    [] phase = "posttest" -> s.posttest_exercises
    [] phase = "pretest" -> s.pretest_exercises

\* setattr(session, session_list_attr, new_exercises)
SetPhaseList(s, phase, list) ==
  CASE phase = "practice" -> [s EXCEPT !.practice_exercises = list]
    [] phase = "posttest" -> [s EXCEPT !.posttest_exercises = list]
    [] phase = "pretest" -> [s EXCEPT !.pretest_exercises = list]

\* ORDER BY dificultate ASC, id ASC
RECURSIVE OrderByDifficulty(_)
OrderByDifficulty(ids) ==
  IF ids = {} THEN <<>>
  ELSE LET first == CHOOSE a \in ids : \A b \in ids \ {a} :
                      \/ ExerciseTable[a].dificultate < ExerciseTable[b].dificultate
                      \/ /\ ExerciseTable[a].dificultate = ExerciseTable[b].dificultate
                         /\ a < b
       IN <<first>> \o OrderByDifficulty(ids \ {first})

\* The rows of the phase after the run has deleted the placeholders
\* (length(enunt) < 20, or LIKE a pattern written without diacritics, which
\* the seeded text is not) and inserted its valid generated rows, as
\* get_exercises(lesson_id, phase, count) returns them.
ReloadedExercises(lesson, p, added) ==
  LET stored == Range(get_exercises(lesson, p.phase, SELECT_POOL))
      kept == {id \in stored : ExerciseTable[id].enunt # "short"}
  IN Take(OrderByDifficulty(kept \cup Range(Take(p.ids, added))), p.count)

\* ------------------------------------------------------------------------
\* The state machine
\* ------------------------------------------------------------------------
\* Elapsed times a caller reports with an answer (0: none reported)
Times == {0}

Init ==
  /\ session = None
  /\ prev_state = "None"
  /\ waiting_for_continue = FALSE
  /\ micro_quiz_ex = "unset"
  /\ db = EmptyDb
  /\ emitted = <<>>
  /\ call = [op |-> "init", ok |-> FALSE, ret |-> "None"]
  /\ user_skill = [code \in SkillCodes |-> NoRow]
  /\ today = 1
  /\ level_raises = [code \in SkillCodes |-> 0]
  /\ exercise_stats = [id \in DOMAIN ExerciseTable |-> NoRow]
  /\ reply = NoReply
  /\ bg_threads = <<>>
  /\ generation = NoGeneration

\* One public operation: the engine after it, and what was called. A call
\* that returns at once (no field or store changed, no callback fired, nothing
\* returned or raised) leaves no trace: call and emitted describe the last
\* call that did something.
Do(e, op, ok) ==
  IF e = Engine THEN UNCHANGED vars ELSE
  /\ UNCHANGED store_vars
  /\ session' = e.session
  /\ prev_state' = e.prev_state
  /\ waiting_for_continue' = e.waiting_for_continue
  /\ micro_quiz_ex' = e.micro_quiz_ex
  /\ db' = e.db
  /\ emitted' = e.emitted
  /\ call' = [op |-> op, ok |-> ok, ret |-> e.ret]

\* The engine after a step that also moves a background thread: the fields
\* of the engine, and what was called.
DoEngine(e, op, ok) ==
  /\ session' = e.session
  /\ prev_state' = e.prev_state
  /\ waiting_for_continue' = e.waiting_for_continue
  /\ micro_quiz_ex' = e.micro_quiz_ex
  /\ db' = e.db
  /\ emitted' = e.emitted
  /\ call' = [op |-> op, ok |-> ok, ret |-> e.ret]

\* MaxSessions caps the sessions opened in the store.
\* A call of start; the call notes whether anything was due for review
StartCall(lesson_id, srs_due) ==
  Do(start(Engine, lesson_id, srs_due), "start", srs_due # <<>>)

Start ==
  \E lesson_id \in LessonIds, srs_due \in SrsDueChoices :
    /\ get_lesson(lesson_id) # None => db.sessions < MaxSessions
    /\ StartCall(lesson_id, srs_due)

Pause == Do(pause(Engine), "pause", FALSE)

Resume == Do(resume(Engine), "resume", FALSE)

\* Hints taken in the session so far: those recorded with the answers and
\* those of the exercise in progress.
RECURSIVE SumHints(_)
SumHints(results) ==
  IF results = <<>> THEN 0 ELSE Head(results).hints_used + SumHints(Tail(results))
HintsSoFar(s) ==
  s.current_hints_used + SumHints(s.pretest_results)
    + SumHints(s.practice_results) + SumHints(s.posttest_results)

\* A call of request_hint
HintCall == Do(request_hint(Engine), "request_hint", FALSE)

\* MaxHints caps the hints a session grants; refused calls are not capped.
RequestHint ==
  /\ request_hint(Engine).ret # "None" => HintsSoFar(session) < MaxHints
  /\ HintCall

\* A call of submit_answer
SubmitCall ==
  \E is_correct \in BOOLEAN, time_sec \in Times :
    Do(submit_answer(Engine, is_correct, time_sec), "submit_answer", is_correct)

\* MaxAnswers caps the exercise answers of a session.
SubmitAnswer ==
  /\ (session # None /\ session.state \in {"PRE_TEST", "PRACTICE", "POST_TEST"})
       => session.answers_count < MaxAnswers
  /\ SubmitCall

AdvanceAfterResult == Do(advance_after_result(Engine), "advance_after_result", FALSE)

NextChunk == Do(next_chunk(Engine), "next_chunk", FALSE)

Next ==
  \/ Start
  \/ Pause
  \/ Resume
  \/ RequestHint
  \/ SubmitAnswer
  \/ AdvanceAfterResult
  \/ NextChunk

Spec == Init /\ [][Next]_vars

\* A submit_answer during which a store write raises.  mark_exercise_wrong
\* is called for wrong answers only.  MaxWriteFailures caps the failures.
SubmitAnswerWriteFails ==
  /\ session # None
  /\ session.state \in {"PRE_TEST", "PRACTICE", "POST_TEST"}
  /\ session.answers_count < MaxAnswers
  /\ db.failed < MaxWriteFailures
  /\ \E is_correct \in BOOLEAN, time_sec \in Times, k \in DOMAIN StoreWrites :
       /\ StoreWrites[k] = "mark_exercise_wrong" => ~is_correct
       /\ Do(submit_answer_write_fails(Engine, is_correct, time_sec, k),
             "submit_answer", is_correct)

\* A call of update_user_skills; level_raises notes the skills whose level
\* the call raised.
UpdateCall(skill_codes, is_correct, weight, time_sec) ==
  LET table == update_user_skills(user_skill, skill_codes, is_correct, weight,
                                  time_sec, today)
  IN /\ user_skill' = table
     /\ level_raises' =
          [code \in SkillCodes |->
             level_raises[code]
               + (IF LevelOf(table, code) > LevelOf(user_skill, code) THEN 1 ELSE 0)]
     /\ UNCHANGED <<today, engine_vars, query_vars, worker_vars>>

\* The attempts recorded in the table, over all skills.
RECURSIVE AttemptsOf(_, _)
AttemptsOf(table, codes) ==
  IF codes = {} THEN 0
  ELSE LET code == CHOOSE c \in codes : TRUE
       IN (IF table[code] = NoRow THEN 0 ELSE table[code].attempts)
            + AttemptsOf(table, codes \ {code})

\* MaxAttempts caps the attempts recorded in the table.
UpdateUserSkills ==
  \E skill_codes \in SkillCodeLists, is_correct \in BOOLEAN,
     weight \in Weights, time_sec \in SkillTimes :
    /\ AttemptsOf(user_skill, SkillCodes) + Len(skill_codes) <= MaxAttempts
    /\ UpdateCall(skill_codes, is_correct, weight, time_sec)

\* Midnight: datetime.now() moves to the next calendar day.
NextDay ==
  /\ today < MaxDays
  /\ today' = today + 1
  /\ level_raises' = [code \in SkillCodes |-> 0]
  /\ UNCHANGED <<user_skill, engine_vars, query_vars, worker_vars>>

NextSkills ==
  \/ UpdateUserSkills
  \/ NextDay

\* The skill tracking of the store, called over several days.
SpecSkills == Init /\ [][NextSkills]_vars

\* One skill practised attempt after attempt: update_user_skills called
\* with the one skill code, the default tier's weight and no time reported.
\* MaxPractice caps the attempts recorded in the table.
PractiseSkill ==
  \E is_correct \in BOOLEAN, weight \in Weights :
    /\ AttemptsOf(user_skill, SkillCodes) < MaxPractice
    /\ UpdateCall(<<"SKILL_A">>, is_correct, weight, 0)

\* Midnight while one skill is practised.
NextPracticeDay ==
  /\ today < MaxPracticeDays
  /\ today' = today + 1
  /\ level_raises' = [code \in SkillCodes |-> 0]
  /\ UNCHANGED <<user_skill, engine_vars, query_vars, worker_vars>>

NextLevels ==
  \/ PractiseSkill
  \/ NextPracticeDay

\* The mastery level of one skill practised over several days.
SpecLevels == Init /\ [][NextLevels]_vars

\* The row of a skill after the answers of the list, one call of
\* update_user_skills each, on the day.
RECURSIVE RowAfter(_, _, _)
RowAfter(row, answers, day) ==
  IF answers = <<>> THEN row
  ELSE RowAfter(IF row = NoRow THEN FirstRow(Head(answers), 0, day)
                ELSE UpdatedRow(row, Head(answers), TierWeight(DEFAULT_TIER), 0, day),
                Tail(answers), day)

\* Histories of a skill: the answers of day 1 and those of day 2.  They leave
\* the skill untracked, at level 0, 1 (twice), 2 (twice) and 3.
SkillHistories ==
  LET Ok(n) == [i \in 1..n |-> TRUE]
  IN {<<<<>>, <<>>>>,
      <<<<FALSE>>, <<>>>>,
      <<Ok(4), <<TRUE>>>>,
      <<Ok(4), <<TRUE, FALSE, FALSE>>>>,
      <<Ok(7), <<TRUE>>>>,
      <<Ok(7), <<TRUE, FALSE>>>>,
      <<Ok(11), <<TRUE>>>>}

SampleRows == {RowAfter(RowAfter(NoRow, h[1], 1), h[2], 2) : h \in SkillHistories}

\* mark_exercise_wrong called for each exercise of the set on the day
RECURSIVE MarkAllWrong(_, _, _)
MarkAllWrong(stats, ids, day) ==
  IF ids = {} THEN stats
  ELSE LET id == CHOOSE x \in ids : TRUE
       IN MarkAllWrong(mark_exercise_wrong(stats, id, day), ids \ {id}, day)

\* Stats tables on day 2: some exercises answered wrongly on day 1 (due on
\* day 2), some on day 2 (not due before day 3, or day 5 on a second miss).
SampleStats ==
  {MarkAllWrong(MarkAllWrong([id \in DOMAIN ExerciseTable |-> NoRow], A, 1), B, 2) :
     A \in SUBSET {11, 13, 15}, B \in SUBSET {11}}

\* The store on day 2, after a history of practice.
InitSelect ==
  /\ session = None
  /\ prev_state = "None"
  /\ waiting_for_continue = FALSE
  /\ micro_quiz_ex = "unset"
  /\ db = EmptyDb
  /\ emitted = <<>>
  /\ call = [op |-> "init", ok |-> FALSE, ret |-> "None"]
  /\ user_skill \in [SkillCodes -> SampleRows]
  /\ today = 2
  /\ level_raises = [code \in SkillCodes |-> 0]
  /\ exercise_stats \in SampleStats
  /\ reply = NoReply
  /\ bg_threads = <<>>
  /\ generation = NoGeneration

\* skill_codes arguments of can_access_tier4
QueryCodeLists ==
  {<<>>, <<"SKILL_A">>, <<"MATH_4">>, <<"SKILL_A", "MATH_4">>, <<"MATH_4", "SKILL_A">>}

\* A call of can_access_tier4
CanAccessTier4 ==
  \E skill_codes \in QueryCodeLists :
    /\ reply' = [op |-> "can_access_tier4", skill_codes |-> skill_codes,
                 ret |-> can_access_tier4(user_skill, skill_codes)]
    /\ UNCHANGED <<engine_vars, user_skill, today, level_raises, exercise_stats, worker_vars>>

\* A call of select_adaptive_exercises; MaxSelect caps the count asked for.
SelectAdaptive ==
  \E lesson_id \in {0} \cup DOMAIN LessonTable, n \in 0..MaxSelect :
    /\ reply' = [op |-> "select_adaptive_exercises", lesson_id |-> lesson_id, n |-> n,
                 ret |-> select_adaptive_exercises(user_skill, exercise_stats, today,
                                                   lesson_id, n)]
    /\ UNCHANGED <<engine_vars, user_skill, today, level_raises, exercise_stats, worker_vars>>

NextSelect ==
  \/ CanAccessTier4
  \/ SelectAdaptive

\* The queries of the store that select exercises.
SpecSelect == InitSelect /\ [][NextSelect]_vars

\* Elapsed times reported with the answers of a timed session (0: none)
QualityTimes == {0, 7, 13}

\* A session on lesson 3, which starts in PRACTICE, nothing due for review.
StartTimed ==
  /\ db.sessions < MaxSessions
  /\ StartCall(3, <<>>)

\* MaxQualityHints caps the hints asked for one exercise.
RequestHintTimed ==
  /\ session # None
  /\ session.current_hints_used < MaxQualityHints
  /\ HintCall

\* MaxQualityAnswers caps the exercise answers of the session.
SubmitAnswerTimed ==
  /\ session # None
  /\ session.answers_count < MaxQualityAnswers
  /\ \E is_correct \in BOOLEAN, time_sec \in QualityTimes :
       Do(submit_answer(Engine, is_correct, time_sec), "submit_answer", is_correct)

NextTimed ==
  \/ StartTimed
  \/ RequestHintTimed
  \/ SubmitAnswerTimed
  \/ AdvanceAfterResult

\* One session whose answers report their elapsed time, with hints.
SpecTimed == Init /\ [][NextTimed]_vars

\* Exercises the learner answers wrongly
WrongIds == {4, 5, 6}

\* The wrong answers counted in the stats table, over the exercises.
RECURSIVE WrongCounts(_, _)
WrongCounts(stats, ids) ==
  IF ids = {} THEN 0
  ELSE LET id == CHOOSE x \in ids : TRUE
       IN (IF stats[id] = NoRow THEN 0 ELSE stats[id].wrong_count)
            + WrongCounts(stats, ids \ {id})

\* An incorrect answer on an exercise of the store: _answer_exercise calls
\* mark_exercise_wrong for it.  MaxWrong caps the wrong answers counted.
MarkExerciseWrong ==
  \E exercise_id \in WrongIds :
    /\ WrongCounts(exercise_stats, WrongIds) < MaxWrong
    /\ exercise_stats' = mark_exercise_wrong(exercise_stats, exercise_id, today)
    /\ reply' = [op |-> "mark_exercise_wrong", exercise_id |-> exercise_id]
    /\ UNCHANGED <<engine_vars, user_skill, today, level_raises, worker_vars>>

\* Midnight between wrong answers.
NextWrongDay ==
  /\ today < MaxWrongDays
  /\ today' = today + 1
  /\ UNCHANGED <<engine_vars, user_skill, level_raises, query_vars, worker_vars>>

NextWrong ==
  \/ MarkExerciseWrong
  \/ NextWrongDay

\* The error bank of the store over several days.
SpecWrong == Init /\ [][NextWrong]_vars

\* An integer written without separator: 10^(n-1) and the n-digit repunit
TenPower(n) == [i \in 1..n |-> IF i = 1 THEN "1" ELSE "0"]
Repunit(n) == [i \in 1..n |-> "1"]

\* The integers compared: MaxGroups caps their groups of three digits.
Numbers == {TenPower(n) : n \in 1..(3 * MaxGroups)} \cup {Repunit(n) : n \in 1..(3 * MaxGroups)}

\* The notations: thousands separated by ".", by a space, not separated
Notations == {".", " ", ""}

\* The digits of an integer written in a notation
RECURSIVE Written(_, _)
Written(digits, sep) ==
  IF Len(digits) <= 3 THEN digits
  ELSE Written(SubSeq(digits, 1, Len(digits) - 3), sep)
         \o (IF sep = "" THEN <<>> ELSE <<sep>>)
         \o SubSeq(digits, Len(digits) - 2, Len(digits))

\* Two integers, each written in a notation, are normalized.
NormalizePair ==
  /\ reply.op = "normalize?"
  /\ reply' = [op |-> "normalize", a |-> reply.a, b |-> reply.b,
               norm_a |-> _normalize_answer(reply.text_a),
               norm_b |-> _normalize_answer(reply.text_b)]
  /\ UNCHANGED <<engine_vars, user_skill, today, level_raises, exercise_stats, worker_vars>>

\* The alternates of an expected answer joined by the separator
RECURSIVE Join(_, _)
Join(alts, joiner) ==
  IF Len(alts) <= 1 THEN (IF alts = <<>> THEN <<>> ELSE alts[1])
  ELSE alts[1] \o joiner \o Join(Tail(alts), joiner)

\* Expected answers of exercises: their alternates and how they are joined
ExpectedAnswers ==
  {[alts |-> <<<<"2", "9", "0", "0", "0", "0">>>>, joiner |-> <<" ", "s", "a", "u", " ">>],
   [alts |-> <<<<"3", "2">>, <<"6", "0">>>>, joiner |-> <<" ", "s", "a", "u", " ">>],
   [alts |-> <<<<"1", ".", "0", "0", "0">>, <<"2", " ", "0", "0", "0">>>>, joiner |-> <<" ", " ", "S", "A", "U", " ">>],
   [alts |-> <<<<"D", "a">>>>, joiner |-> <<" ", "s", "a", "u", " ">>]}

\* Answers of the learner
LearnerAnswers ==
  {<<"2", "9", "0", ".", "0", "0", "0">>, <<"2", "9", "0", " ", "0", "0", "0">>, <<"2", "9", "0", "0", "0">>,
   <<"6", "0">>, <<" ", "3", "2", " ">>, <<"6", "1">>,
   <<"1", "0", "0", "0">>, <<"2", ".", "0", "0", "0">>, <<"D", "A">>,
   <<"3", "2", " ", "s", "a", "u", " ", "6", "0">>, <<"s", "a", "u">>}

\* An answer is compared with the expected answer of an exercise.
CheckAnswer ==
  /\ reply.op = "is_correct?"
  /\ reply' = [op |-> "is_correct", alts |-> reply.alts, raspuns |-> reply.raspuns,
               answer |-> reply.answer,
               ret |-> IsCorrect(reply.raspuns, reply.answer)]
  /\ UNCHANGED <<engine_vars, user_skill, today, level_raises, exercise_stats, worker_vars>>

\* The comparisons asked for: two written integers, or an expected answer
\* and an answer of the learner.
Comparisons ==
  {[op |-> "normalize?", a |-> a, b |-> b,
    text_a |-> Written(a, sa), text_b |-> Written(b, sb)] :
     a \in Numbers, b \in Numbers, sa \in Notations, sb \in Notations}
  \cup
  {[op |-> "is_correct?", alts |-> expected.alts,
    raspuns |-> Join(expected.alts, expected.joiner), answer |-> answer] :
     expected \in ExpectedAnswers, answer \in LearnerAnswers}

\* The engine before any session, with a comparison to make.
InitAnswers ==
  /\ session = None
  /\ prev_state = "None"
  /\ waiting_for_continue = FALSE
  /\ micro_quiz_ex = "unset"
  /\ db = EmptyDb
  /\ emitted = <<>>
  /\ call = [op |-> "init", ok |-> FALSE, ret |-> "None"]
  /\ user_skill = [code \in SkillCodes |-> NoRow]
  /\ today = 1
  /\ level_raises = [code \in SkillCodes |-> 0]
  /\ exercise_stats = [id \in DOMAIN ExerciseTable |-> NoRow]
  /\ reply \in Comparisons
  /\ bg_threads = <<>>
  /\ generation = NoGeneration

NextAnswers ==
  \/ NormalizePair
  \/ CheckAnswer

\* The comparison of answers with expected answers.
SpecAnswers == InitAnswers /\ [][NextAnswers]_vars

\* The lesson flow with a responsive learner: an answer that can be given is
\* eventually given, Continue is eventually pressed, a paused session is
\* eventually resumed.
SpecResponsive ==
  /\ Init
  /\ [][Next]_vars
  /\ SF_vars(SubmitAnswer)
  /\ SF_vars(AdvanceAfterResult)
  /\ WF_vars(Resume)

\* The lesson flow with a caller that keeps responding: it answers every
\* exercise and micro quiz presented, presses Continue after every result,
\* asks for the next chunk of every theory chunk and resumes a paused
\* session.
SpecCaller ==
  /\ Init
  /\ [][Next]_vars
  /\ SF_vars(SubmitAnswer)
  /\ SF_vars(AdvanceAfterResult)
  /\ SF_vars(NextChunk)
  /\ WF_vars(Resume)

\* Questions a learner types: two blank ones and one that is not blank.
Questions == {<<>>, <<" ", " ">>, <<"d", "e", " ", "c", "e", "?">>}

\* A call of ask_free_question.  MaxQuestions caps the threads started.
AskFreeQuestion ==
  \E question \in Questions :
    LET e == ask_free_question(Engine, question) IN
    IF e.ret # "thread" THEN UNCHANGED vars
    ELSE /\ Len(bg_threads) < MaxQuestions
         /\ bg_threads' = Append(bg_threads, "running")
         /\ DoEngine(e, "ask_free_question", FALSE)
         /\ UNCHANGED <<user_skill, today, level_raises, query_vars, generation>>

\* Thread i of ask_free_question runs to its end: the collaborator is asked
\* (for at most 25 s) and the thread speaks.
FreeAnswer(i) ==
  /\ i \in 1..Len(bg_threads)
  /\ bg_threads[i] = "running"
  /\ \E outcome \in AskOutcomes :
       DoEngine(_bg(Engine, outcome), "_bg", outcome = "answer")
  /\ bg_threads' = [bg_threads EXCEPT ![i] = "done"]
  /\ UNCHANGED <<user_skill, today, level_raises, query_vars, generation>>

\* The session of the exploration is started: lesson 4, nothing being due
\* for review.
StartQuestions ==
  /\ session = None
  /\ StartCall(4, <<>>)

NextQuestions ==
  \/ StartQuestions
  \/ SubmitAnswer
  \/ AdvanceAfterResult
  \/ NextChunk
  \/ AskFreeQuestion
  \/ \E i \in 1..MaxQuestions : FreeAnswer(i)

\* A lesson during which free questions are asked.  Every started thread is
\* scheduled and the collaborator's call is bounded by its timeout, so every
\* thread runs to its end.
SpecQuestions ==
  /\ Init
  /\ [][NextQuestions]_vars
  /\ \A i \in 1..MaxQuestions : WF_vars(FreeAnswer(i))

\* ------------------------------------------------------------------------
\* The textbook's theory and the run of _generate_exercises_background
\* ------------------------------------------------------------------------
\* A chunk of the textbook: the length of its text, and of its text stripped
Chunk(len, stripped) == [len |-> len, stripped |-> stripped]
ChunkLists ==
  {<<Chunk(15, 3)>>, <<Chunk(40, 40)>>, <<Chunk(15, 3), Chunk(42, 40), Chunk(25, 25)>>}

\* threading.Timer(12.0, self._generate_exercises_background): the run as
\* scheduled by the session of the id, on the lesson.  target is the id of the
\* session the run has captured (0: none yet), detached that session once the
\* engine holds another one, phase the position in GenPhases, added the rows
\* inserted for the phase, written whether the run has changed the store.
ScheduledRun(by, lesson_id) ==
  [pc |-> "scheduled", by |-> by, lesson |-> lesson_id, target |-> 0,
   detached |-> None, phase |-> 1, added |-> 0, written |-> FALSE]

\* A session the engine has dropped while the run holds it: the fields the
\* run reads (the lesson, the state, the lists of the phases).
Detached(s) ==
  [LessonSession(s.lesson) EXCEPT
     !.state = s.state, !.session_id = s.session_id,
     !.theory_chunks = s.theory_chunks,
     !.pretest_exercises = s.pretest_exercises,
     !.practice_exercises = s.practice_exercises,
     !.posttest_exercises = s.posttest_exercises]

\* The run has not changed the rows of the store
StoreAsLoaded == IF generation.pc = "none" THEN TRUE ELSE ~generation.written

\* A call of start, nothing due for review; MaxLessonsStarted caps the
\* sessions started.  Sessions are started while the rows of the store are
\* those the lessons were loaded with.  A session the run has captured stays
\* with the run when the engine drops it.
StartLesson(lesson_id) ==
  /\ db.sessions < MaxLessonsStarted
  /\ StoreAsLoaded
  /\ DoEngine(start(Engine, lesson_id, <<>>), "start", FALSE)
  /\ generation' =
       IF generation.pc \notin {"none", "scheduled"} /\ session # None
          /\ generation.target = session.session_id
       THEN [generation EXCEPT !.detached = Detached(session)]
       ELSE generation
  /\ UNCHANGED <<user_skill, today, level_raises, exercise_stats, reply, bg_threads>>

\* A call of set_theory_chunks, made right after start ("must be called after
\* engine.start(), before the lesson reaches LESSON_CHUNK").  A call that
\* starts the timer is taken when no run has been scheduled before.
SetTheoryChunks ==
  \E chunks \in ChunkLists, prior_attempts \in BOOLEAN, available \in BOOLEAN :
    LET e == set_theory_chunks(Engine, chunks, prior_attempts, available,
                               user_skill, exercise_stats, today)
    IN IF e = Engine THEN UNCHANGED vars
       ELSE /\ call.op = "start"
            /\ e.ret = "timer" => generation.pc = "none"
            /\ DoEngine(e, "set_theory_chunks", prior_attempts)
            /\ generation' = IF e.ret = "timer"
                             THEN ScheduledRun(session.session_id, session.lesson.id)
                             ELSE generation
            /\ UNCHANGED <<user_skill, today, level_raises, exercise_stats, reply,
                           bg_threads>>

\* Lessons with a tier-4 exercise in the practice pool
TheoryLessons == {5, 6}

StartTheory == session = None /\ \E lesson_id \in TheoryLessons : StartLesson(lesson_id)

NextTheory ==
  \/ StartTheory
  \/ SetTheoryChunks

\* Sessions whose theory comes from the textbook, for a learner with a
\* history of practice.
SpecTheory == InitSelect /\ [][NextTheory]_vars

\* session = self.session: the session object the run works on
CapturedLive == session # None /\ generation.target = session.session_id
Captured == IF CapturedLive THEN session ELSE generation.detached

\* A step of the run: its next position, and the captured session after it.
GenStep(g, s) ==
  /\ generation' = IF CapturedLive THEN g ELSE [g EXCEPT !.detached = s]
  /\ session' = IF CapturedLive THEN s ELSE session
  /\ UNCHANGED <<prev_state, waiting_for_continue, micro_quiz_ex, db, emitted, call,
                 user_skill, today, level_raises, exercise_stats, reply, bg_threads>>

\* continue: the next phase of the loop, or the end of the run
NextPhase(g) ==
  IF g.phase = Len(GenPhases) THEN [g EXCEPT !.pc = "ended"]
  ELSE [g EXCEPT !.pc = "read", !.phase = g.phase + 1, !.added = 0]

\* The timer fires: the run returns, or captures the session of the engine.
GenBegin ==
  /\ generation.pc = "scheduled"
  /\ \E available \in BOOLEAN :
       generation' =
         IF session = None \/ ~available \/ session.theory_chunks = <<>>
         THEN [generation EXCEPT !.pc = "ended"]
         ELSE [generation EXCEPT !.pc = "read", !.target = session.session_id]
  /\ UNCHANGED <<engine_vars, user_skill, today, level_raises, exercise_stats, reply,
                 bg_threads>>

\* What generate_exercises returns: items, of which valid have a text and
\* an answer.
GeneratedChoices ==
  {[items |-> 0, valid |-> 0], [items |-> 1, valid |-> 0],
   [items |-> 1, valid |-> 1], [items |-> 2, valid |-> 2]}

\* The run reads the list of the phase and asks for exercises.
GenRead ==
  /\ generation.pc = "read"
  /\ LET current == PhaseList(Captured, GenPhases[generation.phase].phase)
     IN IF current # <<>> /\ ~(\A i \in 1..Len(current) : _is_placeholder_exercise(current[i]))
        THEN GenStep(NextPhase(generation), Captured)
        ELSE \E generated \in GeneratedChoices :
               IF generated.items = 0 THEN GenStep(NextPhase(generation), Captured)
               ELSE GenStep([generation EXCEPT !.pc = "swap", !.added = generated.valid],
                            Captured)

\* The run deletes the placeholders of the phase, inserts the valid rows and
\* assigns the reloaded list to the captured session.
GenSwap ==
  /\ generation.pc = "swap"
  /\ LET p == GenPhases[generation.phase]
         g == [generation EXCEPT !.written = TRUE]
     IN IF generation.added = 0 THEN GenStep(NextPhase(g), Captured)
        ELSE GenStep(IF p.phase = "pretest" THEN [g EXCEPT !.pc = "check"]
                     ELSE NextPhase(g),
                     SetPhaseList(Captured, p.phase,
                                  ReloadedExercises(Captured.lesson, p, generation.added)))

\* if phase == "pretest" and session.state == LessonState.PRE_TEST
GenCheck ==
  /\ generation.pc = "check"
  /\ GenStep([generation EXCEPT !.pc = IF Captured.state = "PRE_TEST" THEN "reset"
                                       ELSE "ended"],
             Captured)

\* session.current_exercise_idx = 0
GenReset ==
  /\ generation.pc = "reset"
  /\ GenStep([generation EXCEPT !.pc = "ended"],
             [Captured EXCEPT !.current_exercise_idx = 0])

\* Lessons without three real practice exercises
BackgroundLessons == {3, 7}

StartBackground == \E lesson_id \in BackgroundLessons : StartLesson(lesson_id)

\* A call of submit_answer by a learner whose answers are correct
AnswerCorrectly == SubmitAnswer /\ call'.ok

NextBackground ==
  \/ StartBackground
  \/ SetTheoryChunks
  \/ AnswerCorrectly
  \/ AdvanceAfterResult
  \/ NextChunk
  \/ GenBegin
  \/ GenRead
  \/ GenSwap
  \/ GenCheck
  \/ GenReset

\* Sessions during which exercises are generated in the background.
SpecBackground == Init /\ [][NextBackground]_vars

\* The lesson flow with a store whose writes can fail.
NextStoreFails ==
  \/ Start
  \/ SubmitAnswer
  \/ SubmitAnswerWriteFails
  \/ AdvanceAfterResult
  \/ NextChunk

SpecStoreFails == Init /\ [][NextStoreFails]_vars

\* ------------------------------------------------------------------------
\* Properties
\* ------------------------------------------------------------------------
\* The last operation fired the callback ev with tag st.
Fired(ev, st) == \E i \in 1..Len(emitted) : emitted[i].ev = ev /\ emitted[i].st = st
FiredNext(ev, st) ==
  \E i \in 1..Len(emitted') : emitted'[i].ev = ev /\ emitted'[i].st = st

\* This step is a submit_answer that processes an exercise answer: the state
\* is an exercise phase and the current index designates an exercise.
ExerciseAnswerStep ==
  /\ call'.op = "submit_answer"
  /\ session # None
  /\ session.state \in {"PRE_TEST", "PRACTICE", "POST_TEST"}
  /\ session.current_exercise_idx < Len(_get_current_exercises(Engine))

\* This step records the third consecutive wrong answer.
ThirdWrongStep ==
  /\ ExerciseAnswerStep
  /\ ~call'.ok
  /\ session.consecutive_wrong = 2

\* new extends old at the end
Extends(old, new) == Len(new) >= Len(old) /\ SubSeq(new, 1, Len(old)) = old
Added(old, new) == SubSeq(new, Len(old) + 1, Len(new))
\* The QuestionResults a step appends, over the three phase lists.
AddedResults ==
  Added(session.pretest_results, session'.pretest_results)
    \o Added(session.practice_results, session'.practice_results)
    \o Added(session.posttest_results, session'.posttest_results)

\* C1: when submit_answer records the third consecutive wrong answer in
\* PRE_TEST, PRACTICE or POST_TEST the exercise index is not advanced: the
\* exercise that triggered the re-explanation stays the current one.
C1_IndexKeptOnThirdWrong ==
  [][ThirdWrongStep =>
       session'.current_exercise_idx = session.current_exercise_idx]_vars

\* C2: on the third consecutive wrong answer with n theory chunks: for
\* n >= 2 the chunk index becomes (c + 1) mod n, c being the previous index
\* clamped to 0..n-1, and the state becomes LESSON_CHUNK; for n = 1 a recap
\* is spoken and the chunk index is unchanged.
C2_AltChunkRoundRobin ==
  [][ThirdWrongStep =>
       LET n == Len(session.theory_chunks)
           c == session.current_chunk_idx
           clamped == IF c < 0 THEN 0 ELSE IF c > n - 1 THEN n - 1 ELSE c
       IN /\ n >= 2 => /\ session'.current_chunk_idx = (clamped + 1) % n
                       /\ session'.state = "LESSON_CHUNK"
          /\ n = 1 => /\ FiredNext("speak", "recap")
                      /\ session'.current_chunk_idx = c]_vars

\* C2 witness: a third wrong answer was just answered by an alternate chunk
\* of a lesson with at least two chunks.
C2_Witness ==
  /\ call.op = "submit_answer"
  /\ session # None
  /\ Len(session.theory_chunks) >= 2
  /\ session.state = "LESSON_CHUNK"
  /\ Fired("speak", "alt_explanation")

\* C3: submit_answer in a state other than PRE_TEST, PRACTICE, POST_TEST or
\* MICRO_QUIZ, or without a session, changes nothing: whatever the answer,
\* the call cannot change the session, the engine's fields or the store, and
\* fires no callback.
C3_SubmitRejectedNoEffect ==
  (session = None
     \/ session.state \notin {"PRE_TEST", "PRACTICE", "POST_TEST", "MICRO_QUIZ"})
  => /\ ENABLED SubmitCall
     /\ ~ENABLED (SubmitCall /\ vars' # vars)

\* C3 witness: a paused session, on which submit_answer can be called and
\* changes nothing.
C3_Witness ==
  /\ session # None
  /\ session.state = "PAUSED"
  /\ call.op = "pause"
  /\ ENABLED (SubmitCall /\ UNCHANGED vars)

\* C4: every submit_answer in PRE_TEST, PRACTICE, POST_TEST or MICRO_QUIZ
\* appends exactly one QuestionResult to a phase result list and makes
\* exactly one mastery update with the same correctness.
C4_EveryAnswerRecorded ==
  [][(/\ call'.op = "submit_answer"
      /\ session # None
      /\ session.state \in {"PRE_TEST", "PRACTICE", "POST_TEST", "MICRO_QUIZ"})
     => /\ Len(AddedResults) = 1
        /\ AddedResults[1].is_correct = call'.ok
        /\ Extends(db.skills, db'.skills)
        /\ Len(Added(db.skills, db'.skills)) = 1
        /\ Added(db.skills, db'.skills)[1].is_correct = call'.ok]_vars

\* C5: within a session every step that appends a QuestionResult appends,
\* in the same step, one mastery update and one scheduler update for that
\* exercise with the same correctness, and no other step touches the two
\* logs; so both logs are in submission order.
C5_UpdatesInSubmissionOrder ==
  [][(session # None /\ call'.op # "start")
     => /\ Len(AddedResults) <= 1
        /\ Extends(db.skills, db'.skills)
        /\ Extends(db.srs, db'.srs)
        /\ Len(Added(db.skills, db'.skills)) = Len(AddedResults)
        /\ Len(Added(db.srs, db'.srs)) = Len(AddedResults)
        /\ Len(AddedResults) = 1 =>
             LET qr == AddedResults[1]
                 m == Added(db.skills, db'.skills)[1]
                 r == Added(db.srs, db'.srs)[1]
             IN /\ m.is_correct = qr.is_correct
                /\ r.exercise_id = qr.exercise_id
                /\ (r.quality = 1) = ~qr.is_correct]_vars

\* C5 witness: the store has received a scheduler update for a wrong answer
\* and, after it, one for a correct answer.
C5_Witness ==
  /\ session # None
  /\ \E i, j \in 1..Len(db.srs) :
       i < j /\ db.srs[i].quality = 1 /\ db.srs[j].quality > 1
  /\ Len(db.skills) = Len(db.srs)

\* C6: pause() immediately followed by resume() leaves the session in the
\* interrupted state with the same exercise index, chunk index and result
\* lists.
C6_PauseResumeRoundTrip ==
  [][(/\ call'.op = "resume"
      /\ call.op = "pause"
      /\ emitted # <<>>
      /\ session # None
      /\ session.state = "PAUSED")
     => /\ session'.state = prev_state
        /\ session'.current_exercise_idx = session.current_exercise_idx
        /\ session'.current_chunk_idx = session.current_chunk_idx
        /\ session'.pretest_results = session.pretest_results
        /\ session'.practice_results = session.practice_results
        /\ session'.posttest_results = session.posttest_results]_vars

\* This step processes a correct exercise answer that is at least the third
\* in a row counted by tier_up_streak.
ThirdCorrectStep ==
  /\ ExerciseAnswerStep
  /\ call'.ok
  /\ session.tier_up_streak >= 2

\* This step processes a wrong exercise answer that is at least the second
\* in a row counted by tier_down_count.
SecondWrongStep ==
  /\ ExerciseAnswerStep
  /\ ~call'.ok
  /\ session.tier_down_count >= 1

\* C7 as stated: after three consecutive correct answers the tier is
\* min(3, tier + 1) and the counter is 0, also at the cap.
C7_Original ==
  [][ThirdCorrectStep =>
       /\ session'.current_tier =
            IF session.current_tier + 1 < 3 THEN session.current_tier + 1 ELSE 3
       /\ session'.tier_up_streak = 0]_vars

\* C7 amended: after three consecutive correct answers below tier 3 the
\* tier is raised by exactly one and the counter is reset to 0; at tier 3
\* the tier stays 3 and the counter is not reset, it keeps counting.
C7_TierUp ==
  [][ThirdCorrectStep =>
       IF session.current_tier < 3
       THEN /\ session'.current_tier = session.current_tier + 1
            /\ session'.tier_up_streak = 0
       ELSE /\ session'.current_tier = 3
            /\ session'.tier_up_streak = session.tier_up_streak + 1]_vars

\* C7 witness: a correct answer has just raised the tier to 3 and reset the
\* counter.
C7_Witness ==
  /\ call.op = "submit_answer" /\ call.ok
  /\ session # None
  /\ session.current_tier = 3
  /\ session.tier_up_streak = 0
  /\ Fired("avatar_message", "tier")

\* C8 as stated: after two consecutive wrong answers the tier is
\* max(1, tier - 1) and the counter is 0, also at the floor.
C8_Original ==
  [][SecondWrongStep =>
       /\ session'.current_tier =
            IF session.current_tier - 1 > 1 THEN session.current_tier - 1 ELSE 1
       /\ session'.tier_down_count = 0]_vars

\* C8 amended: after two consecutive wrong answers above tier 1 the tier is
\* lowered by exactly one and the counter is reset to 0; at tier 1 the tier
\* stays 1 and the counter is not reset, it keeps counting.
C8_TierDown ==
  [][SecondWrongStep =>
       IF session.current_tier > 1
       THEN /\ session'.current_tier = session.current_tier - 1
            /\ session'.tier_down_count = 0
       ELSE /\ session'.current_tier = 1
            /\ session'.tier_down_count = session.tier_down_count + 1]_vars

\* C8 witness: a wrong answer has just lowered the tier to 1 and reset the
\* counter.
C8_Witness ==
  /\ call.op = "submit_answer" /\ ~call.ok
  /\ session # None
  /\ session.current_tier = 1
  /\ session.tier_down_count = 0
  /\ Fired("avatar_message", "tier")

\* C9: the tier of a session is always 1, 2 or 3 and an answer changes it
\* by at most one.
C9_TierRange ==
  /\ [](session # None => session.current_tier \in {1, 2, 3})
  /\ [][(call'.op = "submit_answer" /\ session # None)
        => /\ session'.current_tier - session.current_tier <= 1
           /\ session.current_tier - session'.current_tier <= 1]_vars

\* C9 witness: the streak counter has reached 3 while the tier is at the
\* cap, so a further raise was due and did not happen.
C9_Witness ==
  /\ session # None
  /\ session.current_tier = 3
  /\ session.tier_up_streak >= 3

\* This step is a request_hint that returns a hint and counts it.
HintGiven ==
  /\ call'.ret # "None"
  /\ session' = [session EXCEPT !.current_hints_used = @ + 1]
  /\ db' = db

\* A call of request_hint is accepted here: it returns a hint and counts it.
HintAccepted == ENABLED (HintCall /\ HintGiven)

\* A call of request_hint is refused here: it changes nothing, fires no
\* callback and returns nothing.
HintRefused == ~ENABLED (HintCall /\ vars' # vars)

\* C10 as stated: request_hint is accepted in exactly PRE_TEST, PRACTICE,
\* POST_TEST and MICRO_QUIZ and refused without effect elsewhere.
C10_Original ==
  IF session # None
     /\ session.state \in {"PRE_TEST", "PRACTICE", "POST_TEST", "MICRO_QUIZ"}
  THEN HintAccepted ELSE HintRefused

\* C10 amended: request_hint is accepted in PRE_TEST, PRACTICE and POST_TEST
\* while the current exercise index designates an exercise of the phase,
\* and is refused without effect in every other case, MICRO_QUIZ included.
C10_HintStates ==
  IF /\ session # None
     /\ session.state \in {"PRE_TEST", "PRACTICE", "POST_TEST"}
     /\ session.current_exercise_idx < Len(_get_current_exercises(Engine))
  THEN HintAccepted ELSE HintRefused

\* C10 witness: request_hint has just returned the first hint of an exercise.
C10_Witness ==
  /\ call.op = "request_hint"
  /\ call.ret # "None"
  /\ session # None
  /\ session.current_hints_used = 1

\* C11: the k-th accepted request_hint on the current exercise returns the
\* exercise's hint k when k <= 3 and the hint exists, and otherwise a generic
\* fallback message (a non-empty text); each accepted call adds exactly one
\* to the per-exercise hint counter.
C11_HintOrFallback ==
  [][(call'.op = "request_hint" /\ session # None) =>
       LET k == session.current_hints_used + 1
           exercises == _get_current_exercises(Engine)
           ex == ExerciseTable[exercises[session.current_exercise_idx + 1]]
       IN /\ session'.current_hints_used = k
          /\ IF k <= 3 /\ k <= ex.hints
             THEN call'.ret = "hint"
             ELSE call'.ret \notin {"", "None", "hint"}]_vars

\* The states the callbacks of the step announce, in order.
StateChanges(evs) ==
  LET sel == SelectSeq(evs, LAMBDA x : x.ev = "state_change")
  IN [i \in 1..Len(sel) |-> sel[i].st]

\* C12: start for an existing lesson enters WARMUP when the due list is not
\* empty; otherwise PRE_TEST when the pretest list is not empty; otherwise it
\* begins theory, announcing LESSON_INTRO and then LESSON_CHUNK with the chunk
\* index at 0.  In every case the exercise index is 0 and the three result
\* lists are empty.
C12_StartEntry ==
  [][call'.op = "start" =>
       /\ session' # None
       /\ session'.current_exercise_idx = 0
       /\ session'.pretest_results = <<>>
       /\ session'.practice_results = <<>>
       /\ session'.posttest_results = <<>>
       /\ IF call'.ok
          THEN session'.state = "WARMUP"
          ELSE IF get_exercises(session'.lesson, "pretest", PRETEST_COUNT) # <<>>
          THEN session'.state = "PRE_TEST"
          ELSE /\ Len(StateChanges(emitted')) >= 2
               /\ SubSeq(StateChanges(emitted'), 1, 2) = <<"LESSON_INTRO", "LESSON_CHUNK">>
               /\ session'.current_chunk_idx = 0]_vars

\* C12 witness: start has just begun theory directly: nothing was due and the
\* lesson has no pretest.
C12_Witness ==
  /\ call.op = "start"
  /\ session # None
  /\ session.warmup_exercises = <<>>
  /\ session.pretest_exercises = <<>>
  /\ session.state = "LESSON_CHUNK"
  /\ session.current_chunk_idx = 0

\* C13: start with a lesson identifier the store does not know returns
\* without effect: whatever is due, the call can be made and cannot change
\* the session, the engine's fields or the store, and fires no callback.
C13_StartMissingLessonNoEffect ==
  \A lesson_id \in LessonIds, srs_due \in SrsDueChoices :
    get_lesson(lesson_id) = None =>
      /\ ENABLED StartCall(lesson_id, srs_due)
      /\ ~ENABLED (StartCall(lesson_id, srs_due) /\ vars' # vars)

\* C13 witness: a session is in progress, where start with an unknown lesson
\* can be called and changes nothing.
C13_Witness ==
  /\ session # None
  /\ session.state = "PRACTICE"
  /\ Len(session.practice_results) > 0
  /\ ENABLED (StartCall(0, <<>>) /\ UNCHANGED vars)

\* C14: when a store write fails during submit_answer in PRE_TEST, PRACTICE
\* or POST_TEST, the answer step still completes in memory: exactly one
\* QuestionResult is appended, the exercise index advances by one and, unless
\* the answer triggers the re-explanation, the continue step is enabled.
C14_WriteFailureKeepsFlow ==
  [][(call'.op = "submit_answer" /\ call'.ret = "sqlite3.Error") =>
       /\ Len(AddedResults) = 1
       /\ session'.current_exercise_idx = session.current_exercise_idx + 1
       /\ (session'.state = session.state => waiting_for_continue')]_vars

\* C15: next_chunk while theory is presented (LESSON_CHUNK, LESSON_INTRO)
\* adds exactly one to the chunk index and presents that chunk, or, when the
\* new index is past the last chunk, begins PRACTICE with exercise index 0;
\* in every other state, and without a session, it changes nothing.
C15_NextChunk ==
  /\ [](IF session # None /\ session.state \in {"LESSON_CHUNK", "LESSON_INTRO"}
        THEN ENABLED (NextChunk /\ call'.op = "next_chunk")
        ELSE ~ENABLED (NextChunk /\ vars' # vars))
  /\ [][call'.op = "next_chunk" =>
         /\ session'.current_chunk_idx = session.current_chunk_idx + 1
         /\ IF session.current_chunk_idx + 1 < Len(session.theory_chunks)
            THEN /\ FiredNext("speak", "chunk")
                 /\ session'.state \in {"LESSON_CHUNK", "MICRO_QUIZ"}
                 /\ session'.current_exercise_idx = session.current_exercise_idx
            ELSE /\ ~FiredNext("speak", "chunk")
                 /\ FiredNext("state_change", "PRACTICE")
                 /\ session'.current_exercise_idx = 0
                 /\ session'.practice_exercises # <<>> => session'.state = "PRACTICE"]_vars

\* C15 witness: next_chunk has just left the last theory chunk and begun
\* PRACTICE at exercise index 0.
C15_Witness ==
  /\ call.op = "next_chunk"
  /\ session # None
  /\ session.state = "PRACTICE"
  /\ session.current_chunk_idx = Len(session.theory_chunks)
  /\ session.current_chunk_idx > 0
  /\ session.current_exercise_idx = 0

\* Two scores (fractions) are the same number.
SameScore(a, b) == a.num * b.den = b.num * a.den
\* 100 x (number of correct results) / (number of results), for a non-empty
\* list.
Accuracy(results) == [num |-> 100 * Correct(results), den |-> Len(results)]

\* C16: the score of a phase that has results is 100 x correct / total over
\* the results of that phase; the pretest score is 100 when the pretest has no
\* results; the posttest score equals the practice score when the posttest has
\* no results.
C16_PhaseScores ==
  session # None =>
    /\ Len(session.pretest_results) > 0 =>
         SameScore(get_pretest_score(session), Accuracy(session.pretest_results))
    /\ Len(session.practice_results) > 0 =>
         SameScore(get_practice_score(session), Accuracy(session.practice_results))
    /\ Len(session.posttest_results) > 0 =>
         SameScore(get_posttest_score(session), Accuracy(session.posttest_results))
    /\ Len(session.pretest_results) = 0 =>
         SameScore(get_pretest_score(session), [num |-> 100, den |-> 1])
    /\ Len(session.posttest_results) = 0 =>
         SameScore(get_posttest_score(session), get_practice_score(session))

\* C16 witness: a session without pretest and posttest results whose practice
\* results are partly correct, so both defaults apply and the practice score
\* is neither 0 nor 100.
C16_Witness ==
  /\ session # None
  /\ Len(session.pretest_results) = 0
  /\ Len(session.posttest_results) = 0
  /\ Len(session.practice_results) = 3
  /\ Correct(session.practice_results) = 2

\* The last n events of a trace.
LastEvents(evs, n) == SubSeq(evs, Len(evs) - n + 1, Len(evs))

\* This step brings the session to DONE.
FinishStep ==
  /\ call'.op # "start"
  /\ session # None
  /\ session.state # "DONE"
  /\ session'.state = "DONE"

\* C17: a session is finalized exactly once: the step that completes the
\* posttest persists the final session record and the lesson progress once,
\* with passed = (posttest score >= 75), then announces SUMMARY and DONE and
\* fires the session-done callback once, as the last event, after the two
\* store calls and with the state already DONE; no other step persists a
\* final record or fires the callback, and DONE is left only by a new start.
C17_FinalizedOnce ==
  /\ [](session # None =>
          /\ Len(db.ended) = (IF session.state = "DONE" THEN 1 ELSE 0)
          /\ Len(db.progress) = Len(db.ended))
  /\ [][IF FinishStep
        THEN LET post == get_posttest_score(session')
                 passed == post.num >= 75 * post.den
             IN /\ session'.current_exercise_idx >= Len(session'.posttest_exercises)
                /\ \/ session.state = "POST_TEST"
                   \/ session.state = "PAUSED" /\ prev_state = "POST_TEST"
                /\ db'.ended = <<[session_id |-> session'.session_id, score |-> post,
                                  total_q |-> Len(session'.pretest_results)
                                              + Len(session'.practice_results)
                                              + Len(session'.posttest_results)]>>
                /\ db'.progress = <<[lesson_id |-> session'.lesson.id, score |-> post,
                                     passed |-> passed]>>
                /\ Len(emitted') >= 6
                /\ LastEvents(emitted', 6) =
                     <<Ev("store", "end_session", 0), Ev("store", "update_progress", 0),
                       Ev("state_change", "SUMMARY", 0), Ev("speak", "summary", 0),
                       Ev("state_change", "DONE", 0),
                       Ev("done", IF passed THEN "passed" ELSE "failed", 0)>>
                /\ Cardinality({i \in 1..Len(emitted') : emitted'[i].ev = "done"}) = 1
        ELSE /\ \A i \in 1..Len(emitted') : emitted'[i].ev \notin {"done", "store"}
             /\ call'.op # "start" =>
                  /\ db'.ended = db.ended
                  /\ db'.progress = db.progress
                  /\ (session # None /\ session.state = "DONE") => session'.state = "DONE"]_vars

\* C17 witness: the Continue step after the last posttest answer has just
\* finalized a passed session.
C17_Witness ==
  /\ call.op = "advance_after_result"
  /\ session # None
  /\ session.state = "DONE"
  /\ Len(session.posttest_results) > 0
  /\ Len(db.ended) = 1
  /\ db.progress[1].passed
  /\ Fired("done", "passed")

\* C18: within a session the pretest, practice and posttest result lists are
\* append-only: across every step that does not start a new session each
\* list's earlier contents are a prefix of its later contents.
C18_ResultsAppendOnly ==
  [][(session # None /\ call'.op # "start") =>
       /\ session' # None
       /\ Extends(session.pretest_results, session'.pretest_results)
       /\ Extends(session.practice_results, session'.practice_results)
       /\ Extends(session.posttest_results, session'.posttest_results)]_vars

\* C18 witness: an answer was just appended to a list that already held
\* results, in a session that has results in two lists.
C18_Witness ==
  /\ call.op = "submit_answer"
  /\ session # None
  /\ Len(session.pretest_results) >= 2
  /\ Len(session.practice_results) >= 2
  /\ session.state = "PRACTICE"

\* C19: however many update_user_skills calls fall on one calendar day, the
\* mastery level of a skill increases in at most one of them.
C19_OneRaisePerDay ==
  \A code \in SkillCodes : level_raises[code] <= 1

\* C19 witness: a skill was raised to level 1 today and has since reached the
\* floors of level 2 (85% over 8 attempts) on the same day without being
\* raised again.
C19_Witness ==
  /\ user_skill["SKILL_A"] # NoRow
  /\ level_raises["SKILL_A"] = 1
  /\ user_skill["SKILL_A"].mastery_level = 1
  /\ user_skill["SKILL_A"].attempts >= 8
  /\ 100 * user_skill["SKILL_A"].correct >= 85 * user_skill["SKILL_A"].attempts

\* The mastery the weighted step yields from old (ten-thousandths; weight in
\* hundredths): old + 0.15 x weight or old - 0.10 x weight, clamped to [0, 1].
WeightedStep(old, is_correct, weight) ==
  LET m == IF is_correct THEN old + 15 * weight ELSE old - 10 * weight
  IN IF m < 0 THEN 0 ELSE IF m > 10000 THEN 10000 ELSE m

\* C20 as stated: every skill code passed moves by the weighted step, on the
\* first touch too, starting from mastery 0.
C20_Original ==
  [][user_skill' # user_skill =>
     \A skill_codes \in SkillCodeLists, is_correct \in BOOLEAN,
        weight \in Weights, time_sec \in SkillTimes :
       UpdateCall(skill_codes, is_correct, weight, time_sec) =>
         \A i \in 1..Len(skill_codes) :
           LET code == skill_codes[i]
               old == IF user_skill[code] = NoRow THEN 0 ELSE user_skill[code].mastery
           IN user_skill'[code].mastery = WeightedStep(old, is_correct, weight)]_vars

\* C20 amended: for every skill code passed that already has a record, the
\* mastery moves by +0.15 x weight on a correct answer and -0.10 x weight on
\* an incorrect one, clamped to [0, 1]; on the first touch the record is
\* created with mastery 0.6 after a correct answer and 0.2 after an incorrect
\* one, whatever the weight; codes not passed keep their record; mastery is
\* always in [0, 1].
C20_MasteryStep ==
  /\ [](\A code \in SkillCodes :
          user_skill[code] # NoRow =>
            user_skill[code].mastery >= 0 /\ user_skill[code].mastery <= 10000)
  /\ [][user_skill' # user_skill =>
       \A skill_codes \in SkillCodeLists, is_correct \in BOOLEAN,
          weight \in Weights, time_sec \in SkillTimes :
         UpdateCall(skill_codes, is_correct, weight, time_sec) =>
           \A code \in SkillCodes :
             IF code \in Range(skill_codes)
             THEN user_skill'[code].mastery =
                    IF user_skill[code] = NoRow
                    THEN (IF is_correct THEN 6000 ELSE 2000)
                    ELSE WeightedStep(user_skill[code].mastery, is_correct, weight)
             ELSE user_skill'[code] = user_skill[code]]_vars

\* C20 witness: one call has clamped the mastery of a tracked skill at 1 and
\* created the record of another skill with mastery 0.6.
C20_Witness ==
  /\ user_skill["SKILL_A"] # NoRow
  /\ user_skill["MATH_4"] # NoRow
  /\ user_skill["SKILL_A"].mastery = 10000
  /\ user_skill["SKILL_A"].attempts = 5
  /\ user_skill["MATH_4"].attempts = 1
  /\ user_skill["MATH_4"].mastery = 6000

\* The floors of level L met by a record: accuracy = correct / attempts
\* compared by cross multiplication.
MeetsFloors(row, L) ==
  IF L = 3 THEN 100 * row.correct >= 90 * row.attempts /\ row.attempts >= 12
  ELSE IF L = 2 THEN 100 * row.correct >= 85 * row.attempts /\ row.attempts >= 8
  ELSE 100 * row.correct >= 80 * row.attempts /\ row.attempts >= 5

\* C21: whenever a call raises the mastery level of a skill to L, the record
\* it writes (that attempt included) meets the floors of L: 80% over 5
\* attempts for 1, 85% over 8 for 2, 90% over 12 for 3; and the level of every
\* skill is always one of 0, 1, 2, 3.
C21_LevelFloors ==
  /\ [](\A code \in SkillCodes : LevelOf(user_skill, code) \in 0..3)
  /\ [][\A code \in SkillCodes :
          LevelOf(user_skill, code)' > LevelOf(user_skill, code) =>
            MeetsFloors(user_skill'[code], LevelOf(user_skill, code)')]_vars

\* C21 witness: the twelfth attempt on a skill, on a later day than the
\* eleventh, has raised it to level 3.
C21_Witness ==
  /\ user_skill["SKILL_A"] # NoRow
  /\ user_skill["SKILL_A"].mastery_level = 3
  /\ user_skill["SKILL_A"].attempts = 12
  /\ level_raises["SKILL_A"] = 1
  /\ user_skill["SKILL_A"].last_practiced = today

\* C22: whenever a call leaves a skill with accuracy below 50% over at least
\* 10 attempts, and the level of the skill was above 0, the call lowers the
\* level by exactly one.
C22_DemotedByOne ==
  [][\A code \in SkillCodes :
       (/\ user_skill'[code] # user_skill[code]
        /\ LevelOf(user_skill, code) > 0
        /\ 100 * user_skill'[code].correct < 50 * user_skill'[code].attempts
        /\ user_skill'[code].attempts >= 10)
       => LevelOf(user_skill, code)' = LevelOf(user_skill, code) - 1]_vars

\* C23: can_access_tier4 answers false for an empty list of skill codes and
\* when a code asked for has no row of the learner; otherwise it answers true
\* exactly when the level of every code asked for is at least 2.
C23_Tier4Access ==
  reply.op = "can_access_tier4" =>
    reply.ret =
      (/\ reply.skill_codes # <<>>
       /\ \A i \in 1..Len(reply.skill_codes) :
            /\ user_skill[reply.skill_codes[i]] # NoRow
            /\ user_skill[reply.skill_codes[i]].mastery_level >= 2)

\* C23 witness: access was refused for two codes of which one is at level 2
\* or more and the other has no row.
C23_Witness ==
  /\ reply.op = "can_access_tier4"
  /\ reply.skill_codes = <<"SKILL_A", "MATH_4">>
  /\ ~reply.ret
  /\ user_skill["SKILL_A"] # NoRow
  /\ user_skill["SKILL_A"].mastery_level >= 2
  /\ user_skill["MATH_4"] = NoRow

\* The candidate pool of a lesson: its practice exercises in the store.
PoolOf(lesson_id) ==
  IF get_lesson(lesson_id) = None THEN <<>> ELSE get_lesson(lesson_id).practice

\* C24: the exercises select_adaptive_exercises returns include a tier-4
\* exercise only when every skill code referenced by an exercise of the
\* candidate pool has a row of the learner with level 2 or more.
C24_Tier4Gated ==
  reply.op = "select_adaptive_exercises" =>
    LET referenced ==
          UNION {ExerciseTable[id].skill_codes : id \in Range(PoolOf(reply.lesson_id))}
    IN (\E i \in 1..Len(reply.ret) : ExerciseTable[reply.ret[i]].difficulty_tier = 4)
         => \A code \in referenced :
              user_skill[code] # NoRow /\ user_skill[code].mastery_level >= 2

\* C24 witness: the pool of lesson 6 holds a tier-4 exercise tagged with a
\* skill the learner has at level 2 or more, another exercise of the pool
\* references a skill at level 1, and the selection is that other exercise
\* alone.
C24_Witness ==
  /\ reply.op = "select_adaptive_exercises"
  /\ reply.lesson_id = 6
  /\ reply.n = 2
  /\ reply.ret = <<15>>
  /\ user_skill["SKILL_A"] # NoRow
  /\ user_skill["SKILL_A"].mastery_level >= 2
  /\ user_skill["MATH_4"] # NoRow
  /\ user_skill["MATH_4"].mastery_level = 1

\* C25: select_adaptive_exercises returns at most n exercises, all of the
\* candidate pool and no exercise twice; every exercise due for review comes
\* before every exercise that is not due, and among the due ones and among the
\* others the priority never increases along the list.
C25_SelectionOrder ==
  reply.op = "select_adaptive_exercises" =>
    LET ret == reply.ret
        due_ids == DueIds(exercise_stats, today)
        prio(id) == _priority(ExerciseTable[id], user_skill)
    IN /\ Len(ret) <= reply.n
       /\ Range(ret) \subseteq Range(PoolOf(reply.lesson_id))
       /\ \A i, j \in 1..Len(ret) :
            i < j =>
              /\ ret[i] # ret[j]
              /\ ret[j] \in due_ids => ret[i] \in due_ids
              /\ (ret[i] \in due_ids) = (ret[j] \in due_ids)
                   => PriorityGE(prio(ret[i]), prio(ret[j]))

\* C25 witness: three of the four exercises of lesson 5 were selected; the
\* first is due for review and is followed by an exercise that is not due and
\* has a strictly higher priority.
C25_Witness ==
  /\ reply.op = "select_adaptive_exercises"
  /\ reply.lesson_id = 5
  /\ Len(reply.ret) = 3
  /\ reply.ret[1] \in DueIds(exercise_stats, today)
  /\ reply.ret[2] \notin DueIds(exercise_stats, today)
  /\ ~PriorityGE(_priority(ExerciseTable[reply.ret[1]], user_skill),
                 _priority(ExerciseTable[reply.ret[2]], user_skill))

\* The quality grades a step sends to the scheduler.
AddedGrades == Added(db.srs, db'.srs)

\* C26 as stated: the grade is 1 for an incorrect answer, else 2 for two
\* hints, else 3 for one hint, else 5 when no hint was used and the elapsed
\* time is at most 70% of the average answer time (30 s while the session has
\* no average), else 4.
C26_Original ==
  [][ExerciseAnswerStep =>
       \A i \in 1..Len(AddedGrades) :
         LET qr == AddedResults[1]
             avg_num == IF session'.time_sum = 0 THEN 30 ELSE session'.time_sum
             avg_den == IF session'.time_sum = 0 THEN 1 ELSE session'.answers_count
         IN AddedGrades[i].quality =
              IF ~qr.is_correct THEN 1
              ELSE IF qr.hints_used = 2 THEN 2
              ELSE IF qr.hints_used = 1 THEN 3
              ELSE IF qr.hints_used = 0 /\ 10 * qr.time_sec * avg_den <= 7 * avg_num
              THEN 5
              ELSE 4]_vars

\* C26 amended: the grade sent for an answer is in 1..5: 1 for an incorrect
\* answer, else 2 when two or more hints were used, else 3 for one hint, else
\* 5 when no hint was used, an elapsed time above 0 was reported and it is at
\* most 70% of the session's average answer time (that answer included), else
\* 4.
C26_QualityGrade ==
  [][ExerciseAnswerStep =>
       \A i \in 1..Len(AddedGrades) :
         LET qr == AddedResults[1]
         IN /\ AddedGrades[i].quality \in 1..5
            /\ AddedGrades[i].quality =
                 IF ~qr.is_correct THEN 1
                 ELSE IF qr.hints_used >= 2 THEN 2
                 ELSE IF qr.hints_used = 1 THEN 3
                 ELSE IF /\ qr.time_sec > 0
                         /\ 10 * qr.time_sec * session'.answers_count
                              <= 7 * session'.time_sum
                 THEN 5
                 ELSE 4]_vars

\* C26 witness: a correct answer given after three hints was graded 2 and the
\* next answer, correct without a hint in 7 s at an average of 10 s, was
\* graded 5.
C26_Witness ==
  /\ session # None
  /\ Len(db.srs) = 2
  /\ Len(session.practice_results) = 2
  /\ session.practice_results[1].is_correct
  /\ session.practice_results[1].hints_used = 3
  /\ db.srs[1].quality = 2
  /\ session.practice_results[2].time_sec = 7
  /\ session.time_sum = 20
  /\ db.srs[2].quality = 5

\* C27: every incorrect answer on an exercise increases the wrong_count of
\* the learner and exercise by exactly one (from 0 when there is no row) and
\* leaves the other exercises alone; the k-th incorrect answer sets
\* retry_after to the day of the answer plus 1 day for k = 1, plus 3 days for
\* k = 2 and plus 7 days for k >= 3.
C27_WrongCountAndRetry ==
  [][exercise_stats' # exercise_stats =>
       LET id == reply'.exercise_id
           k == (IF exercise_stats[id] = NoRow THEN 0
                 ELSE exercise_stats[id].wrong_count) + 1
       IN /\ exercise_stats'[id] # NoRow
          /\ exercise_stats'[id].wrong_count = k
          /\ exercise_stats'[id].retry_after =
               today + (IF k = 1 THEN 1 ELSE IF k = 2 THEN 3 ELSE 7)
          /\ \A other \in DOMAIN exercise_stats \ {id} :
               exercise_stats'[other] = exercise_stats[other]]_vars

\* C27 witness: an exercise answered wrongly for the third time, on day 3, is
\* to be retried 7 days later, and another exercise has been answered wrongly
\* once, on day 1.
C27_Witness ==
  /\ today = 3
  /\ exercise_stats[4] # NoRow
  /\ exercise_stats[4].wrong_count = 3
  /\ exercise_stats[4].retry_after = 10
  /\ exercise_stats[5] # NoRow
  /\ exercise_stats[5].wrong_count = 1
  /\ exercise_stats[5].retry_after = 2

\* C28: two integers, each written with "." between the thousands, with a
\* space between them or without separator, have the same normal form exactly
\* when they are the same number.
C28_NormalizeIff ==
  reply.op = "normalize" =>
    ((reply.norm_a = reply.norm_b) <=> (reply.a = reply.b))

\* C29: an answer is counted correct exactly when its normal form is that of
\* the expected answer or, the expected answer listing alternates separated by
\* "sau", that of one of the alternates.
C29_AnswerCounted ==
  reply.op = "is_correct" =>
    LET user_n == _normalize_answer(reply.answer)
    IN reply.ret =
         \/ user_n = _normalize_answer(reply.raspuns)
         \/ /\ Len(reply.alts) > 1
            /\ \E i \in 1..Len(reply.alts) : user_n = _normalize_answer(reply.alts[i])

\* C29 witness: "60" was counted correct for the expected answer "32 sau 60".
C29_Witness ==
  /\ reply.op = "is_correct"
  /\ reply.alts = <<<<"3", "2">>, <<"6", "0">>>>
  /\ reply.answer = <<"6", "0">>
  /\ reply.ret

\* C30: a session in WARMUP leaves it through the learner's answers: with a
\* responsive learner it eventually is in a later phase.
C30_WarmupLeft ==
  (session # None /\ session.state = "WARMUP")
    ~> (session # None /\ session.state \notin {"WARMUP", "PAUSED"})

\* This step is a submit_answer that processes a micro quiz answer.
MicroQuizStep ==
  /\ call'.op = "submit_answer"
  /\ session # None
  /\ session.state = "MICRO_QUIZ"

\* C31 as stated: a micro quiz answer goes through LESSON_CHUNK; a correct
\* one adds exactly one to the chunk index and begins PRACTICE when that was
\* the last chunk, a wrong one keeps the chunk index and presents the same
\* chunk again; the exercise index is never changed.
C31_Original ==
  [][MicroQuizStep =>
       LET c == session.current_chunk_idx
           n == Len(session.theory_chunks)
       IN /\ FiredNext("state_change", "LESSON_CHUNK")
          /\ session'.current_exercise_idx = session.current_exercise_idx
          /\ IF call'.ok
             THEN /\ session'.current_chunk_idx = c + 1
                  /\ IF c + 1 < n
                     THEN /\ FiredNext("speak", "chunk")
                          /\ session'.state \in {"LESSON_CHUNK", "MICRO_QUIZ"}
                     ELSE /\ FiredNext("state_change", "PRACTICE")
                          /\ session'.state = "PRACTICE"
             ELSE /\ session'.current_chunk_idx = c
                  /\ FiredNext("speak", "chunk")
                  /\ session'.state = "MICRO_QUIZ"]_vars

\* C31: a micro quiz answer goes through LESSON_CHUNK; a correct one adds
\* exactly one to the chunk index and, when that was the last chunk, begins
\* PRACTICE at exercise index 0; a wrong one keeps the chunk index and
\* presents the same chunk and its quiz again; the exercise index is left
\* unchanged unless PRACTICE begins.
C31_MicroQuizAnswer ==
  [][MicroQuizStep =>
       LET c == session.current_chunk_idx
           n == Len(session.theory_chunks)
       IN /\ FiredNext("state_change", "LESSON_CHUNK")
          /\ IF call'.ok
             THEN /\ session'.current_chunk_idx = c + 1
                  /\ IF c + 1 < n
                     THEN /\ FiredNext("speak", "chunk")
                          /\ session'.state \in {"LESSON_CHUNK", "MICRO_QUIZ"}
                          /\ session'.current_exercise_idx = session.current_exercise_idx
                     ELSE /\ FiredNext("state_change", "PRACTICE")
                          /\ session'.state = "PRACTICE"
                          /\ session'.current_exercise_idx = 0
             ELSE /\ session'.current_chunk_idx = c
                  /\ FiredNext("speak", "chunk")
                  /\ session'.state = "MICRO_QUIZ"
                  /\ session'.current_exercise_idx = session.current_exercise_idx]_vars

\* C31 witness: after a pretest, a wrong micro quiz answer has just presented
\* the same chunk and its quiz again.
C31_Witness ==
  /\ call.op = "submit_answer"
  /\ ~call.ok
  /\ session # None
  /\ session.state = "MICRO_QUIZ"
  /\ Fired("speak", "reteach")
  /\ session.current_chunk_idx = 0
  /\ session.current_exercise_idx = Len(session.pretest_exercises)
  /\ session.current_exercise_idx > 0

\* The place of a state in the order of the phases; the three theory states
\* share one place.
PhaseRank(st) ==
  CASE st = "WARMUP" -> 1
    [] st = "PRE_TEST" -> 2
    [] st \in {"LESSON_INTRO", "LESSON_CHUNK", "MICRO_QUIZ"} -> 3
    [] st = "PRACTICE" -> 4
    [] st = "POST_TEST" -> 5
    [] st = "SUMMARY" -> 6
    [] st = "DONE" -> 7
    [] OTHER -> 0
\* The phase a session is in: the interrupted state while it is paused.
PhaseOf(s, interrupted) == IF s.state = "PAUSED" THEN interrupted ELSE s.state

\* C36: within a session the phase never moves backwards in the order
\* WARMUP, PRE_TEST, theory, PRACTICE, POST_TEST, SUMMARY, DONE, except for
\* the move from PRACTICE to LESSON_CHUNK on the third consecutive wrong
\* answer; pausing and resuming are not moves.
C36_PhaseOrder ==
  [][(session # None /\ call'.op # "start") =>
       LET a == PhaseOf(session, prev_state)
           b == PhaseOf(session', prev_state')
       IN \/ PhaseRank(b) >= PhaseRank(a)
          \/ a = "PRACTICE" /\ b = "LESSON_CHUNK" /\ ThirdWrongStep]_vars

\* The result list of the exercise phase a session is in.
PhaseResults(s) ==
  CASE s.state = "PRE_TEST" -> s.pretest_results
    [] s.state = "PRACTICE" -> s.practice_results
    [] s.state = "POST_TEST" -> s.posttest_results
    [] OTHER -> <<>>

\* C37: whenever submit_answer is called in PRE_TEST, PRACTICE or POST_TEST,
\* also a second time before advance_after_result, the current exercise
\* index designates an existing exercise of the phase's list, and that
\* exercise has not been answered yet in the phase.
C37_AnswersCurrentExercise ==
  [][(/\ call'.op = "submit_answer"
      /\ session # None
      /\ session.state \in {"PRE_TEST", "PRACTICE", "POST_TEST"})
     => LET exercises == _get_current_exercises(Engine)
            idx == session.current_exercise_idx
            results == PhaseResults(session)
        IN /\ idx < Len(exercises)
           /\ \A i \in 1..Len(results) : results[i].exercise_id # exercises[idx + 1]]_vars

\* The operations C38 and C39 are about, called with any input.
PausedCalls == Pause \/ SubmitCall \/ HintCall \/ NextChunk \/ AdvanceAfterResult
DoneCalls == PausedCalls \/ Resume

\* This step changes a field that a pause freezes.
FrozenFieldChanged ==
  \/ session'.state # session.state
  \/ prev_state' # prev_state
  \/ session'.current_exercise_idx # session.current_exercise_idx
  \/ session'.current_chunk_idx # session.current_chunk_idx
  \/ session'.current_hints_used # session.current_hints_used
  \/ session'.correct_streak # session.correct_streak
  \/ session'.consecutive_wrong # session.consecutive_wrong
  \/ session'.current_tier # session.current_tier
  \/ session'.tier_up_streak # session.tier_up_streak
  \/ session'.tier_down_count # session.tier_down_count
  \/ session'.pretest_results # session.pretest_results
  \/ session'.practice_results # session.practice_results
  \/ session'.posttest_results # session.posttest_results

DoneDisturbed ==
  \/ session'.state # "DONE"
  \/ session'.pretest_results # session.pretest_results
  \/ session'.practice_results # session.practice_results
  \/ session'.posttest_results # session.posttest_results
  \/ db'.ended # db.ended
  \/ db'.progress # db.progress
  \/ vars' # vars /\ \E i \in 1..Len(emitted') : emitted'[i].ev = "done"

\* C39: once the state is DONE, pause, resume, submit_answer, request_hint,
\* next_chunk and advance_after_result cannot change the state, append a
\* QuestionResult, persist another session record or fire another
\* session-done callback.
C39_DoneAbsorbing ==
  (session # None /\ session.state = "DONE") => ~ENABLED (DoneCalls /\ DoneDisturbed)

\* C39 witness: advance_after_result was just called on a finished session
\* whose last answer had not been continued (the session was finished by a
\* resume); the session is still DONE and its one final record is in the
\* store.
C39_Witness ==
  /\ session # None
  /\ session.state = "DONE"
  /\ call.op = "advance_after_result"
  /\ ~Fired("done", "passed")
  /\ ~Fired("done", "failed")
  /\ Len(db.ended) = 1

\* C35: every started session eventually reaches DONE when the caller keeps
\* responding, whatever the answers (in the exploration: DONE, or the cap on
\* the answers of a session).
C35_SessionCompletes ==
  (session # None)
    ~> (session # None
        /\ (session.state = "DONE" \/ session.answers_count >= MaxAnswers))

\* The engine's fields and the session are what they were.
EngineKept ==
  /\ session' = session
  /\ prev_state' = prev_state
  /\ waiting_for_continue' = waiting_for_continue
  /\ micro_quiz_ex' = micro_quiz_ex
  /\ db' = db

\* C34: every ask_free_question with a non-blank question on a live session
\* starts one thread, and every thread eventually speaks exactly once: the
\* collaborator's answer or a deflection.  Neither the call nor the thread
\* changes the session, the engine's fields or the store, and while threads
\* are running an exercise answer and a pending continuation can still be
\* processed.
C34_FreeQuestionAnswered ==
  /\ \A i \in 1..MaxQuestions :
       (Len(bg_threads) >= i) ~> (Len(bg_threads) >= i /\ bg_threads[i] = "done")
  /\ [][IF bg_threads' # bg_threads
        THEN /\ EngineKept
             /\ \/ /\ call'.op = "ask_free_question"
                   /\ bg_threads' = Append(bg_threads, "running")
                   /\ emitted' = <<>>
                \/ /\ call'.op = "_bg"
                   /\ \E i \in 1..Len(bg_threads) :
                        /\ bg_threads[i] = "running"
                        /\ bg_threads' = [bg_threads EXCEPT ![i] = "done"]
                   /\ Len(emitted') = 1
                   /\ emitted'[1].ev = "speak"
                   /\ emitted'[1].st \in
                        {"answer", "deflection_rephrase", "deflection_unavailable"}
        ELSE call'.op \notin {"ask_free_question", "_bg"}]_vars
  /\ []((/\ session # None
          /\ session.state \in {"PRE_TEST", "PRACTICE", "POST_TEST"}
          /\ session.current_exercise_idx < Len(_get_current_exercises(Engine))
          /\ session.answers_count < MaxAnswers)
         => ENABLED (SubmitAnswer /\ Len(AddedResults) = 1))
  /\ [](waiting_for_continue
         => ENABLED (AdvanceAfterResult /\ ~waiting_for_continue'))

\* C34 witness: the thread of the second question has just spoken a
\* deflection while the thread of the first is still running, in a session
\* that has processed an answer and waits for Continue.
C34_Witness ==
  /\ bg_threads = <<"running", "done">>
  /\ call.op = "_bg"
  /\ Fired("speak", "deflection_unavailable")
  /\ session # None
  /\ session.state = "PRACTICE"
  /\ Len(session.practice_results) = 1
  /\ waiting_for_continue


\* The skill codes of the practice pool of the lesson
PoolCodes(lesson) ==
  ListOf(UNION {ExerciseTable[id].skill_codes :
                  id \in Range(get_exercises(lesson, "practice", SELECT_POOL))})

\* The learner has level 2 or more on every skill of the exercise, or on
\* every skill of the pool of the lesson.
Tier4Allowed(id, lesson) ==
  \/ can_access_tier4(user_skill, ListOf(ExerciseTable[id].skill_codes))
  \/ can_access_tier4(user_skill, PoolCodes(lesson))

\* C40 (as stated): the practice list of a live session holds no tier-4
\* exercise unless the learner has mastery level 2 or more on every skill
\* that gates it.
C40_NoLockedTier4 ==
  session # None =>
    \A i \in 1..Len(session.practice_exercises) :
      LET id == session.practice_exercises[i]
      IN TierOrRating(ExerciseTable[id]) >= 4 => Tier4Allowed(id, session.lesson)


\* The exercise index of the session designates a position of the list of
\* the phase in progress.
IndexInList(s) ==
  s.state \in {"WARMUP", "PRE_TEST", "PRACTICE", "POST_TEST"}
    => s.current_exercise_idx < Len(_get_current_exercises([session |-> s]))

\* The run assigns a reloaded list, or passes the phase without one
SwapStep == generation.pc = "swap" /\ generation'.pc # "swap"

\* C32 (as stated): when the background run replaces a list of the live
\* session while an exercise is waiting for its answer, the exercise index,
\* which designated a position of the list of the phase in progress, still
\* does so after the swap.
C32_SwapKeepsIndex ==
  [][(SwapStep /\ session # None /\ ~waiting_for_continue /\ IndexInList(session))
       => IndexInList(session')]_vars


\* A step of the run while the engine keeps its session
RunStep ==
  IF generation.pc = "none" \/ session = None THEN FALSE
  ELSE generation' # generation /\ session'.session_id = session.session_id

\* C33 (as stated): once the engine holds a session on another lesson than
\* the one the run was scheduled for, no step of the run replaces an exercise
\* list of the live session or resets its exercise index.
C33_StaleRunDiscarded ==
  [][(IF RunStep THEN session.lesson.id # generation.lesson ELSE FALSE)
       => /\ session'.pretest_exercises = session.pretest_exercises
          /\ session'.practice_exercises = session.practice_exercises
          /\ session'.posttest_exercises = session.posttest_exercises
          /\ session'.current_exercise_idx = session.current_exercise_idx]_vars

====
